---- MODULE Spec2Model ----
(***************************************************************************)
(* Model of the customizer back end (CustomizerService and its callers):   *)
(* the session-id resolver, the upload pipeline's store protocol, and the  *)
(* two reclaim operations, over an object store modelled as a key/value    *)
(* map from object paths to stored objects and an order ledger.            *)
(*                                                                         *)
(* Strings of the program that the code takes apart (split, includes,      *)
(* template concatenation) are sequences of one-character strings.         *)
(***************************************************************************)
EXTENDS Integers, Sequences, FiniteSets, TLC

(***************************************************************************)
(* Bounds of the model.                                                    *)
(***************************************************************************)
\* invocations of uploadSessionImage one client may make
MaxUploads == 2
\* store/ledger/render failures injected in one behaviour
MaxFaults == 1
\* clock ticks (milliseconds) that may pass during one behaviour
MaxTicks == 1
MaxFolders == 2
\* files the visitor picks in the contact form during one behaviour
MaxFiles == 2
\* times the contact form sends its email during one behaviour
MaxEmails == 2

(***************************************************************************)
(* Program constants.                                                      *)
(***************************************************************************)
maxAttempts == 100
DefaultGraceDays == 7
DayMs == 24 * 60 * 60 * 1000

(***************************************************************************)
(* String helpers (JavaScript String methods used by the code).            *)
(***************************************************************************)
Null == "null"
\* an entry without updated_at: it leaves latestTs at its initial 0
NoTs == 0

\* a.startsWith(p)
StartsWith(a, p) ==
  /\ Len(p) <= Len(a)
  /\ SubSeq(a, 1, Len(p)) = p

\* a.includes(b)
Includes(a, b) ==
  \E i \in 0..(Len(a) - Len(b)) : SubSeq(a, i + 1, i + Len(b)) = b

\* index of the first ch in a, or Len(a)+1
FirstIndexOf(a, ch) ==
  IF \E i \in 1..Len(a) : a[i] = ch
    THEN CHOOSE i \in 1..Len(a) : a[i] = ch /\ \A j \in 1..(i - 1) : a[j] # ch
    ELSE Len(a) + 1

\* a.split(ch)[0]
SplitFirst(a, ch) == SubSeq(a, 1, FirstIndexOf(a, ch) - 1)

Digit(d) == <<"0", "1", "2", "3", "4", "5", "6", "7", "8", "9">>[d + 1]

\* Number.prototype.toString() of a non-negative integer
RECURSIVE NumToString(_)
NumToString(n) ==
  IF n < 10 THEN <<Digit(n)>> ELSE NumToString(n \div 10) \o <<Digit(n % 10)>>

\* s.slice(-k)
SliceLast(s, k) == IF Len(s) <= k THEN s ELSE SubSeq(s, Len(s) - k + 1, Len(s))

RECURSIVE Concat(_)
\* concatenation of a sequence of strings
Concat(ss) == IF ss = <<>> THEN <<>> ELSE Head(ss) \o Concat(Tail(ss))

(***************************************************************************)
(* String literals of the code.                                            *)
(***************************************************************************)
Dash == <<"-">>
Slash == <<"/">>
Underscore == <<"_">>
CustomizerRoot == <<"c", "u", "s", "t", "o", "m", "i", "z", "e", "r">>
OriginalPng == <<"o", "r", "i", "g", "i", "n", "a", "l", ".", "p", "n", "g">>
DotPng == <<".", "p", "n", "g">>
Circle == <<"c", "i", "r", "c", "l", "e">>
Heart == <<"h", "e", "a", "r", "t">>
Rectangle == <<"r", "e", "c", "t", "a", "n", "g", "l", "e">>
SessionIdKey == <<"s", "e", "s", "s", "i", "o", "n", "_", "i", "d">>
ProductIdKey == <<"p", "r", "o", "d", "u", "c", "t", "_", "i", "d">>

ReasonAvailable ==
  "Session ID and Product ID combination is available and not used in any orders"
ReasonConflict ==
  "Conflict detected: session_id with product_id already exists in orders. Generated new unique session ID."
ReasonFallback == "Could not verify with Shopify orders. Using original session ID."
ReasonReuse ==
  "Session ID + Product ID not in Shopify orders. Folder exists in storage, reusing and replacing existing images."
ReasonFresh ==
  "Session ID + Product ID not in Shopify orders and no existing folder. Creating new upload."

(***************************************************************************)
(* Input domains.                                                          *)
(***************************************************************************)
\* session ids a client may send; one holds the folder separator, one starts with it
SessX == <<"x">>
SessY == <<"y">>
SessXDashY == <<"x", "-", "y">>
SessDashX == <<"-", "x">>
SessionIds == {SessX, SessY, SessDashX}
Prod1 == <<"1">>
Prod2 == <<"2">>
ProductIds == {Prod1, <<>>}
Shapes == {Circle, Heart}
\* values of Math.random().toString(36).substring(2, 8).toUpperCase()
RandomSuffixes == {<<"K", "7">>, <<"Q">>}
Uploaders == {"u1", "u2"}
\* the instant (ms) at which a behaviour starts
ClockStart == 2 * DefaultGraceDays * DayMs

(***************************************************************************)
(* Order ledger (ShopifyService.getOrders) and JSON.stringify of an order. *)
(***************************************************************************)
Prop(n, v) == [name |-> n, value |-> v]
Order(sid, pid) == [properties |-> <<Prop(SessionIdKey, sid), Prop(ProductIdKey, pid)>>]

Quote == <<"\"">>
StrLit(s) == Quote \o s \o Quote

StringifyProp(p) ==
  Concat(<< <<"{">>, StrLit(<<"n", "a", "m", "e">>), <<":">>, StrLit(p.name), <<",">>,
            StrLit(<<"v", "a", "l", "u", "e">>), <<":">>, StrLit(p.value), <<"}">> >>)

RECURSIVE StringifyProps(_)
StringifyProps(ps) ==
  IF ps = <<>> THEN <<>>
  ELSE StringifyProp(Head(ps))
         \o (IF Tail(ps) = <<>> THEN <<>> ELSE <<",">> \o StringifyProps(Tail(ps)))

\* JSON.stringify(order)
Stringify(order) ==
  Concat(<< <<"{">>, StrLit(<<"p", "r", "o", "p", "e", "r", "t", "i", "e", "s">>),
            <<":">>, <<"[">>, StringifyProps(order.properties), <<"]">>, <<"}">> >>)

\* a ledger check that reports a conflict for every pair
ConflictExists_Always(existingOrders, sid, pid) == TRUE

\* existingOrders.some(order => properties hold session_id == sid and product_id == pid)
ConflictExists(existingOrders, sid, pid) ==
  \E i \in 1..Len(existingOrders) :
    LET properties == existingOrders[i].properties IN
    \E j \in 1..Len(properties) :
      /\ properties[j].name = SessionIdKey
      /\ properties[j].value = sid
      /\ \E k \in 1..Len(properties) :
           properties[k].name = ProductIdKey /\ properties[k].value = pid

\* existingOrders.some(order => JSON.stringify(order).includes(sessionId))
IsReferenced(existingOrders, sessionId) ==
  \E i \in 1..Len(existingOrders) : Includes(Stringify(existingOrders[i]), sessionId)

(***************************************************************************)
(* generateUniqueSessionId.                                                *)
(***************************************************************************)
\* the suffixes left out
NewSessionId_NoSuffix(baseSessionId, timestamp, randomSuffix) == baseSessionId

\* `${baseSessionId}_${timestamp}_${randomSuffix}`
NewSessionId(baseSessionId, timestamp, randomSuffix) ==
  Concat(<<baseSessionId, Underscore, timestamp, Underscore, randomSuffix>>)

\* Date.now().toString().slice(-4)
TimestampSuffix(now) == SliceLast(NumToString(now), 4)

\* the ids one pass of the loop body may draw at instant now
Candidates(baseSessionId, now) ==
  {NewSessionId(baseSessionId, TimestampSuffix(now), r) : r \in RandomSuffixes}

\* The while loop (lines 89-120) pass by pass: the outcomes <<newSessionId,
\* counter>> of the loop when it is at the test of its condition with the given
\* counter < maxAttempts.  A pass that draws a free id leaves by break; a pass
\* that draws a taken one increments the counter and tests the condition again.
RECURSIVE Passes(_, _, _)
Passes(free, taken, counter) ==
  IF taken # {} /\ counter + 1 < maxAttempts
    THEN {<<c, counter>> : c \in free} \cup Passes(free, taken, counter + 1)
    ELSE {<<c, counter>> : c \in free}
           \cup (IF taken = {} THEN {} ELSE {<<c, counter + 1>> : c \in taken})

WhileLoop(baseSessionId, productId, existingOrders, now, counter) ==
  LET drawn == Candidates(baseSessionId, now)
      free == {c \in drawn : ~ConflictExists(existingOrders, c, productId)}
  IN Passes(free, drawn \ free, counter)

\* the loop giving up after its first pass, whatever it drew
CandidateLoop_FirstDrawn(baseSessionId, productId, existingOrders, now) ==
  {<<c, 1>> : c \in Candidates(baseSessionId, now)}

\* The while loop (lines 89-120) as the set of its outcomes <<newSessionId, counter>>.
\* Every pass draws from the same candidates: a pass that draws a free one leaves
\* by break with the counter of that pass; a pass that draws a taken one goes on
\* to the next pass, and leaves with counter = maxAttempts after the last one.
CandidateLoop(baseSessionId, productId, existingOrders, now) ==
  LET drawn == Candidates(baseSessionId, now)
      free == {c \in drawn : ~ConflictExists(existingOrders, c, productId)}
      taken == drawn \ free
      passes == IF taken = {} THEN {1} ELSE 1..(maxAttempts - 1)
  IN IF 1 < maxAttempts
       THEN {<<c, counter>> : c \in free, counter \in passes}
              \cup {<<c, maxAttempts>> : c \in taken}
       ELSE {<<baseSessionId, 1>>}

\* the catch block drawing a fresh id instead of falling back to the requested one
GenerateUniqueSessionId_FreshOnFailure(baseSessionId, productId, reply, now) ==
  LET outs == CandidateLoop(baseSessionId, productId, reply.orders, now)
  IN {[sessionId |-> o[1], reason |-> ReasonFallback, attempts |-> 0] : o \in outs}

\* the results generateUniqueSessionId may return, given the ledger's reply
GenerateUniqueSessionId(baseSessionId, productId, reply, now) ==
  IF ~reply.ok
    THEN {[sessionId |-> baseSessionId, reason |-> ReasonFallback, attempts |-> 0]}
  ELSE IF ~ConflictExists(reply.orders, baseSessionId, productId)
    THEN {[sessionId |-> baseSessionId, reason |-> ReasonAvailable, attempts |-> 0]}
  ELSE LET outs == CandidateLoop(baseSessionId, productId, reply.orders, now)
       IN {[sessionId |-> o[1], reason |-> ReasonConflict,
            attempts |-> IF o[2] = maxAttempts THEN maxAttempts - 1 ELSE o[2]] : o \in outs}

\* ledgers a behaviour may run against
LedgerNone == <<>>
LedgerX1 == <<Order(SessX, Prod1)>>
LedgerFull ==
  <<Order(SessX, Prod1)>>
    \o <<Order(NewSessionId(SessX, TimestampSuffix(ClockStart), <<"K", "7">>), Prod1),
         Order(NewSessionId(SessX, TimestampSuffix(ClockStart), <<"Q">>), Prod1)>>
Ledgers == {LedgerNone, LedgerX1, LedgerFull}
\* one of the two candidates of the first instant is taken
LedgerHalf ==
  <<Order(SessX, Prod1),
    Order(NewSessionId(SessX, TimestampSuffix(ClockStart), <<"K", "7">>), Prod1)>>

(***************************************************************************)
(* Numbers and transformImage.  A number is [nan, v] with v in hundredths, *)
(* so that 50 is Num(5000) and a zoom of 0.1 is Num(10); pixel counts are  *)
(* plain integers.                                                         *)
(***************************************************************************)
Scale == 100
outputWidth == 500
outputHeight == 500

Num(v) == [nan |-> FALSE, v |-> v]
NaN == [nan |-> TRUE, v |-> 0]

\* Math.max(lo, Math.min(hi, n)) on hundredths
Clamp(lo, hi, v) == IF v < lo THEN lo ELSE IF v > hi THEN hi ELSE v

\* Math.round(n / d) for d > 0: the nearest integer, halves towards +infinity
RoundDiv(n, d) == (2 * n + d) \div (2 * d)

\* the x given taken for the left edge of the image
ImageOrigin_FromEdge(center, scaled) == center

\* Math.round(centerX - scaledWidth / 2)
ImageOrigin(center, scaled) == RoundDiv(2 * center - scaled, 2)

\* half of the part that does not fit the canvas
ExtractOffset_HalfOverflow(origin, scaled, canvas) ==
  IF origin < 0 THEN (scaled - canvas) \div 2 ELSE 0

\* if (imageLeft < 0) extractLeft = Math.abs(imageLeft)
ExtractOffset(origin, scaled, canvas) == IF origin < 0 THEN 0 - origin ELSE 0

\* extractWidth = scaledWidth - extractLeft when imageLeft < 0, then
\* Math.min(extractWidth, outputWidth)
ExtractSize(origin, scaled, canvas) ==
  LET size == IF origin < 0 THEN scaled - (0 - origin) ELSE scaled
  IN IF size < canvas THEN size ELSE canvas

\* Math.max(0, imageLeft)
CompositeOffset(origin) == IF origin > 0 THEN origin ELSE 0

\* the geometry transformImage computes (247-302); sharp rejects a size or an
\* offset that is not an integer, so a NaN among x, y, zoom ends in the catch
TransformImage(custom, width, height) ==
  IF custom.x.nan \/ custom.y.nan \/ custom.zoom.nan
    THEN [ok |-> FALSE, error |-> "Failed to transform image"]
  ELSE
    LET zoom == Clamp(Scale \div 10, 5 * Scale, custom.zoom.v)
        x == Clamp(0, 100 * Scale, custom.x.v)
        y == Clamp(0, 100 * Scale, custom.y.v)
        scaledWidth == RoundDiv(width * zoom, Scale)
        scaledHeight == RoundDiv(height * zoom, Scale)
        centerX == RoundDiv(x * width, 100 * Scale)
        centerY == RoundDiv(y * height, 100 * Scale)
        imageLeft == ImageOrigin(centerX, scaledWidth)
        imageTop == ImageOrigin(centerY, scaledHeight)
    IN [ok |-> TRUE, error |-> "",
        zoom |-> zoom, x |-> x, y |-> y,
        scaledWidth |-> scaledWidth, scaledHeight |-> scaledHeight,
        centerX |-> centerX, centerY |-> centerY,
        imageLeft |-> imageLeft, imageTop |-> imageTop,
        extractLeft |-> ExtractOffset(imageLeft, scaledWidth, width),
        extractTop |-> ExtractOffset(imageTop, scaledHeight, height),
        extractWidth |-> ExtractSize(imageLeft, scaledWidth, width),
        extractHeight |-> ExtractSize(imageTop, scaledHeight, height),
        compositeLeft |-> CompositeOffset(imageLeft),
        compositeTop |-> CompositeOffset(imageTop)]

NoTransform == [pc |-> "idle", x |-> 0, y |-> 0, zoom |-> 0, out |-> [ok |-> FALSE, error |-> ""]]

\* the x, y and zoom a call is made with, in hundredths: inside the range, at
\* its ends, outside it, and values whose products do not come out whole
Positions == {0 - 500, 0, 2500, 3333, 5000, 9990, 10000, 15000}
Zooms == {5, 10, 50, 100, 101, 150, 200, 500, 900}

(***************************************************************************)
(* parseFloat and toLowerCase on the strings of a request body.            *)
(***************************************************************************)
Digits == <<"0", "1", "2", "3", "4", "5", "6", "7", "8", "9">>
IsDigit(ch) == \E i \in 1..10 : Digits[i] = ch
DigitValue(ch) == (CHOOSE i \in 1..10 : Digits[i] = ch) - 1

\* the number of leading characters of s that are digits
DigitsPrefix(s) ==
  CHOOSE k \in 0..Len(s) :
    /\ \A i \in 1..k : IsDigit(s[i])
    /\ k < Len(s) => ~IsDigit(s[k + 1])

RECURSIVE ToInt(_)
ToInt(ds) ==
  IF ds = <<>> THEN 0
  ELSE 10 * ToInt(SubSeq(ds, 1, Len(ds) - 1)) + DigitValue(ds[Len(ds)])

\* parseFloat(s): an optional '-', digits, an optional '.' and digits, read
\* from the start of s as far as they go; NaN when no digit is read.  The
\* result is in hundredths, further decimals are dropped.
ParseFloat(s) ==
  LET negative == s # <<>> /\ s[1] = "-"
      body == IF negative THEN Tail(s) ELSE s
      n == DigitsPrefix(body)
      rest == SubSeq(body, n + 1, Len(body))
      hasPoint == rest # <<>> /\ rest[1] = "."
      m == IF hasPoint THEN DigitsPrefix(Tail(rest)) ELSE 0
      decimals == IF hasPoint THEN SubSeq(Tail(rest), 1, m) ELSE <<>>
      hundredths == ToInt(SubSeq(decimals \o <<"0", "0">>, 1, 2))
      magnitude == Scale * ToInt(SubSeq(body, 1, n)) + hundredths
  IN IF n = 0 /\ m = 0 THEN NaN
     ELSE Num(IF negative THEN 0 - magnitude ELSE magnitude)

UpperCase == <<"A", "B", "C", "D", "E", "F", "G", "H", "I", "J", "K", "L", "M",
               "N", "O", "P", "Q", "R", "S", "T", "U", "V", "W", "X", "Y", "Z">>
LowerCase == <<"a", "b", "c", "d", "e", "f", "g", "h", "i", "j", "k", "l", "m",
               "n", "o", "p", "q", "r", "s", "t", "u", "v", "w", "x", "y", "z">>

\* s.toLowerCase()
ToLowerCase(s) ==
  [i \in 1..Len(s) |->
     IF \E j \in 1..26 : UpperCase[j] = s[i]
       THEN LowerCase[CHOOSE j \in 1..26 : UpperCase[j] = s[i]]
       ELSE s[i]]

Star == <<"s", "t", "a", "r">>
\* const validShapes = ['circle', 'heart', 'rectangle'], and the cases of the switch
ValidShapes == {Circle, Heart, Rectangle}

\* the x, y and zoom a direct call of the service uses unless said otherwise
DefaultCustom == [x |-> Num(50 * Scale), y |-> Num(50 * Scale), zoom |-> Num(Scale)]
NoBody == [x |-> <<>>, y |-> <<>>, zoom |-> <<>>, shape |-> <<>>]

InvalidShape == "Invalid shape"
MaskFailed == "Failed to apply mask"

\* applyShapeMask(buffer, 500, 500, shape): the default case of the switch
\* throws inside the try, and the catch (232-235) throws the mask failure in
\* its place
ApplyShapeMask(shape) ==
  LET thrown == IF shape \in ValidShapes THEN "" ELSE InvalidShape
  IN IF thrown = "" THEN [ok |-> TRUE, error |-> ""]
                    ELSE [ok |-> FALSE, error |-> MaskFailed]

(***************************************************************************)
(* State.                                                                  *)
(***************************************************************************)
VARIABLES
  supabase,    \* TRUE when initializeSupabase built a client, FALSE when this.supabase is null
  store,       \* bucket customizer-uploads: object path -> [bytes, updated_at]
  orders,      \* the orders ShopifyService.getOrders returns
  clock,       \* Date.now()
  faults,      \* failures injected so far
  up,          \* per client: the running uploadSessionImage call (locals and position)
  left,        \* per client: calls of uploadSessionImage it may still make
  requests,    \* the session ids the clients of this behaviour send
  written,     \* history: object path -> bytes of the last successful put on it
  completed,   \* history: results of the calls of uploadSessionImage that returned
  uploads,     \* the per-product upload records (ProductUploadsService)
  rc,          \* the running reclaim call (locals and position)
  store0,      \* history: the store the behaviour started from
  cleanupSecret, \* process.env.CLEANUP_SECRET, Null when it is not set
  fetched,     \* the getOriginalFile call of this behaviour (arguments, position, result)
  tr,          \* the transformImage call of this behaviour (arguments, position, result)
  q,           \* the lookup by session id of this behaviour (arguments, position, result)
  form         \* the contact form page: uploads, activeUploads, the submit button, requests in flight

upVars == <<up, left, requests, written, completed>>
rcVars == <<uploads, rc, store0>>
vars == <<form, supabase, cleanupSecret, q, fetched, tr, store, orders, clock, faults, upVars, rcVars>>

(***************************************************************************)
(* The object store (supabase.storage.from('customizer-uploads')).         *)
(***************************************************************************)
\* `${a}/${b}`
Join(a, b) == Concat(<<a, Slash, b>>)

\* `customizer/${folderName}`
FolderPath(folderName) == Join(CustomizerRoot, folderName)

\* `customizer/${sessionId}-${productId}`
SessionFolder(sessionId, productId) ==
  Join(CustomizerRoot, Concat(<<sessionId, Dash, productId>>))

\* `${customizationData.shape}_${timestamp}.png`
ShapedFileName(shape, timestamp) ==
  Concat(<<shape, Underscore, NumToString(timestamp), DotPng>>)

\* the object paths of st below prefix/
Below(st, prefix) == {k \in DOMAIN st : StartsWith(k, prefix \o Slash)}

\* .list(prefix): the entries directly under prefix/, files with their
\* updated_at, folders (common prefixes) without
List(st, prefix) ==
  {LET rest == SubSeq(k, Len(prefix) + 2, Len(k))
       name == SplitFirst(rest, "/")
   IN [name |-> name, updated_at |-> IF name = rest THEN st[k].updated_at ELSE NoTs]
   : k \in Below(st, prefix)}

\* a remove that deletes nothing
Remove_Nothing(st, paths) == st

\* .remove(paths)
Remove(st, paths) == [k \in DOMAIN st \ paths |-> st[k]]

\* an upload without upsert: an existing object is kept
Upload_NoUpsert(st, path, bytes, now) ==
  [k \in DOMAIN st \cup {path} |->
     IF k \in DOMAIN st THEN st[k] ELSE [bytes |-> bytes, updated_at |-> now]]

\* .upload(path, bytes, {upsert: true}) at instant now
Upload(st, path, bytes, now) ==
  [k \in DOMAIN st \cup {path} |->
     IF k = path THEN [bytes |-> bytes, updated_at |-> now] ELSE st[k]]

\* the outcomes of one call on a collaborator: a result, an {error} result, an exception
Outcomes == IF faults < MaxFaults THEN {"ok", "error", "throw"} ELSE {"ok"}
ThrowOutcomes == IF faults < MaxFaults THEN {"ok", "throw"} ELSE {"ok"}
Fault(outcome) == faults' = IF outcome = "ok" THEN faults ELSE faults + 1

Record(w, path, bytes) ==
  [k \in DOMAIN w \cup {path} |-> IF k = path THEN bytes ELSE w[k]]

(***************************************************************************)
(* uploadSessionImage: one action per awaited call, each with the code     *)
(* that runs up to the next await.                                         *)
(***************************************************************************)
NoCall ==
  [pc |-> "idle", sessionId |-> <<>>, productId |-> <<>>, shape |-> <<>>,
   file |-> Null, buffer |-> Null,
   finalSessionId |-> <<>>, sessionIdChanged |-> FALSE, sessionIdChangeReason |-> "",
   shapedFileName |-> <<>>, filePaths |-> {},
   error |-> "", failedAt |-> "",
   calls |-> 0, ledgerFailed |-> FALSE, conflict |-> FALSE, attempts |-> 0,
   cleaned |-> FALSE,
   custom |-> DefaultCustom, via |-> "", body |-> NoBody, existed |-> FALSE]

FileKinds == {Null, "image/png", "image/gif"}

\* the exception a failed step ends the call with
Fail(u, kind) ==
  [up[u] EXCEPT !.pc = "failed", !.error = kind, !.failedAt = up[u].pc]

\* a folder of its own for every call
FinalFolderPath_PerCall(c) ==
  SessionFolder(c.finalSessionId, c.productId \o Underscore \o NumToString(c.buffer[2]))

\* `customizer/${finalSessionId}-${productId}`
FinalFolderPath(c) == SessionFolder(c.finalSessionId, c.productId)
OriginalFilePath(c) == Join(FinalFolderPath(c), OriginalPng)
ShapedFilePath(c) == Join(FinalFolderPath(c), c.shapedFileName)

\* the bytes applyShapeMask(transformImage(buffer)) returns
Shaped(buffer, shape) == <<"shaped", buffer, shape>>

\* a service that takes the client for built
Configured_Always(client) == TRUE

\* if (!this.supabase) throw ...: TRUE when the call may go on
Configured(client) == client

\* uploadSessionImage entered with the arguments of c: the checks before the
\* first await (part_004 355-377)
Entered(c) ==
  LET c0 == [c EXCEPT !.pc = "failed", !.failedAt = "call"]
  IN IF c.file = Null THEN [c0 EXCEPT !.error = "No file provided"]
     ELSE IF c.sessionId = <<>> THEN [c0 EXCEPT !.error = "Session ID is required"]
     ELSE IF c.productId = <<>> THEN [c0 EXCEPT !.error = "Product ID is required"]
     ELSE IF ~Configured(supabase)
       THEN [c0 EXCEPT !.error = "Supabase service is not configured"]
     ELSE IF c.file # "image/png"
       THEN [c0 EXCEPT !.error = "Only PNG and JPG files are allowed"]
     ELSE [c EXCEPT !.pc = "getOrders"]

\* the call and the checks before the first await (part_004 355-377)
UploadCall(u) ==
  /\ up[u].pc \in {"idle", "done", "failed"}
  /\ left[u] > 0
  /\ left' = [left EXCEPT ![u] = @ - 1]
  /\ \E sessionId \in requests, productId \in ProductIds,
        shape \in Shapes, file \in FileKinds :
       up' = [up EXCEPT ![u] =
                Entered([NoCall EXCEPT !.sessionId = sessionId, !.productId = productId,
                                       !.shape = shape, !.file = file,
                                       !.buffer = <<u, left[u]>>, !.via = "service"])]
  /\ UNCHANGED <<form, supabase, cleanupSecret, q, fetched, tr, store, orders, clock, faults, requests, written, completed, rcVars>>

\* what a request body may carry for x, y, zoom and shape
BodyXs == {<<>>, <<"a", "b", "c">>, <<"5", "0">>, <<"1", "5", "0">>}
BodyYs == {<<>>, <<"5", "0">>, <<"1", "2", "p", "x">>, <<"p", "x">>}
BodyZooms == {<<>>, <<"a", "b", "c">>, <<"1">>, <<"9">>, <<"0", ".", "5">>}
BodyShapes == {<<>>, Circle, <<"H", "e", "a", "r", "t">>, Star}

\* the HttpException a check of the controller throws
Rejected(c, message) ==
  [c EXCEPT !.pc = "failed", !.error = message, !.failedAt = "http"]

\* POST /customizer/upload (controller 78-181) up to the first await of
\* uploadSessionImage
HttpUploadImage(u) ==
  /\ up[u].pc \in {"idle", "done", "failed"}
  /\ left[u] > 0
  /\ left' = [left EXCEPT ![u] = @ - 1]
  /\ \E sessionId \in requests, productId \in ProductIds, file \in FileKinds,
        x \in BodyXs, y \in BodyYs, zoom \in BodyZooms, shape \in BodyShapes :
       LET body == [x |-> x, y |-> y, zoom |-> zoom, shape |-> shape]
           customizationData == [x |-> ParseFloat(x), y |-> ParseFloat(y),
                                 zoom |-> ParseFloat(zoom)]
           c == [NoCall EXCEPT !.sessionId = sessionId, !.productId = productId,
                               !.file = file, !.buffer = <<u, left[u]>>,
                               !.via = "http", !.body = body]
       IN up' = [up EXCEPT ![u] =
            IF sessionId = <<>> THEN Rejected(c, "Session ID is required")
            ELSE IF productId = <<>> THEN Rejected(c, "Product ID is required")
            ELSE IF x = <<>> \/ y = <<>> \/ zoom = <<>> \/ shape = <<>>
              THEN Rejected(c, "Missing required fields: x, y, zoom, shape")
            ELSE IF ToLowerCase(shape) \notin ValidShapes
              THEN Rejected(c, InvalidShape)
            ELSE Entered([c EXCEPT !.shape = ToLowerCase(shape),
                                   !.custom = customizationData])]
  /\ UNCHANGED <<form, supabase, cleanupSecret, q, fetched, tr, store, orders, clock, faults, requests, written, completed, rcVars>>

\* the customizationData a caller inside the process may pass
DirectShapes == {Circle, Star}
DirectCustoms == {DefaultCustom, [DefaultCustom EXCEPT !.zoom = NaN]}

\* uploadSessionImage called with any customizationData
DirectUpload(u) ==
  /\ up[u].pc \in {"idle", "done", "failed"}
  /\ left[u] > 0
  /\ left' = [left EXCEPT ![u] = @ - 1]
  /\ \E sessionId \in requests, productId \in ProductIds, file \in FileKinds,
        shape \in DirectShapes, custom \in DirectCustoms :
       up' = [up EXCEPT ![u] =
                Entered([NoCall EXCEPT !.sessionId = sessionId, !.productId = productId,
                                       !.shape = shape, !.file = file,
                                       !.custom = custom,
                                       !.buffer = <<u, left[u]>>, !.via = "service"])]
  /\ UNCHANGED <<form, supabase, cleanupSecret, q, fetched, tr, store, orders, clock, faults, requests, written, completed, rcVars>>

\* await generateUniqueSessionId (its getOrders and loop), then lines 389-396
\* and, when the id changed, 422-433
UploadGetOrders(u) ==
  /\ up[u].pc = "getOrders"
  /\ \E outcome \in ThrowOutcomes :
       /\ Fault(outcome)
       /\ LET c == up[u]
              reply == [ok |-> outcome = "ok", orders |-> orders]
          IN \E r \in GenerateUniqueSessionId(c.sessionId, c.productId, reply, clock) :
               LET changed == c.sessionId # r.sessionId
               IN up' = [up EXCEPT ![u] =
                    [c EXCEPT !.finalSessionId = r.sessionId,
                              !.sessionIdChangeReason = r.reason,
                              !.sessionIdChanged = changed,
                              !.attempts = r.attempts,
                              !.calls = @ + 1,
                              !.ledgerFailed = ~reply.ok,
                              !.conflict =
                                 reply.ok /\ ConflictExists(orders, c.sessionId, c.productId),
                              !.shapedFileName =
                                 IF changed THEN ShapedFileName(c.shape, clock) ELSE <<>>,
                              !.pc = IF changed THEN "listFinal" ELSE "listExisting"]]
  /\ UNCHANGED <<form, supabase, cleanupSecret, q, fetched, tr, store, orders, clock, left, requests, written, completed, rcVars>>

\* await list(folderPath) of lines 400-404, then 406-433
UploadListExisting(u) ==
  /\ up[u].pc = "listExisting"
  /\ \E outcome \in Outcomes :
       /\ Fault(outcome)
       /\ LET c == up[u]
              folderPath == SessionFolder(c.sessionId, c.productId)
              existingFiles == IF outcome = "ok" THEN List(store, folderPath) ELSE {}
          IN up' = [up EXCEPT ![u] =
               IF outcome = "throw"
                 THEN [Fail(u, "Failed to upload customized image") EXCEPT !.calls = @ + 1]
               ELSE [c EXCEPT !.sessionIdChangeReason =
                                 IF existingFiles # {} THEN ReasonReuse ELSE ReasonFresh,
                              !.shapedFileName = ShapedFileName(c.shape, clock),
                              !.calls = @ + 1,
                              !.existed = List(store, folderPath) # {},
                              !.pc = "listFinal"]]
  /\ UNCHANGED <<form, supabase, cleanupSecret, q, fetched, tr, store, orders, clock, left, requests, written, completed, rcVars>>

\* await list(finalFolderPath) of lines 437-439, then 441-444
UploadListFinal(u) ==
  /\ up[u].pc = "listFinal"
  /\ \E outcome \in Outcomes :
       /\ Fault(outcome)
       /\ LET c == up[u]
              existingFiles == IF outcome = "ok" THEN List(store, FinalFolderPath(c)) ELSE {}
              filePaths == {Join(FinalFolderPath(c), f.name) : f \in existingFiles}
          IN up' = [up EXCEPT ![u] =
               [c EXCEPT !.filePaths = filePaths,
                         !.calls = @ + 1,
                         !.cleaned = (outcome = "ok" /\ filePaths = {}),
                         !.pc = IF filePaths # {} THEN "remove" ELSE "putOriginal"]]
  /\ UNCHANGED <<form, supabase, cleanupSecret, q, fetched, tr, store, orders, clock, left, requests, written, completed, rcVars>>

\* await remove(filePaths) of lines 445-447, then 449-461
UploadRemove(u) ==
  /\ up[u].pc = "remove"
  /\ \E outcome \in Outcomes :
       /\ Fault(outcome)
       /\ store' = IF outcome = "ok" THEN Remove(store, up[u].filePaths) ELSE store
       /\ up' = [up EXCEPT ![u] = [@ EXCEPT !.calls = @ + 1,
                                            !.cleaned = (outcome = "ok"),
                                            !.pc = "putOriginal"]]
  /\ UNCHANGED <<form, supabase, cleanupSecret, q, fetched, tr, orders, clock, left, requests, written, completed, rcVars>>

\* await upload(originalFilePath) of lines 464-470, then 472-494: the render
\* (sharp metadata, transformImage, applyShapeMask) touches no shared state
UploadPutOriginal(u) ==
  /\ up[u].pc = "putOriginal"
  /\ \E outcome \in Outcomes :
       LET c == up[u] IN
       IF outcome = "ok"
         THEN /\ store' = Upload(store, OriginalFilePath(c), c.buffer, clock)
              /\ written' = Record(written, OriginalFilePath(c), c.buffer)
              /\ \E render \in ThrowOutcomes :
                   /\ Fault(render)
                   /\ up' = [up EXCEPT ![u] =
                        IF render # "ok"
                          THEN [Fail(u, "Failed to transform image") EXCEPT !.calls = @ + 1]
                        ELSE IF ~TransformImage(c.custom, outputWidth, outputHeight).ok
                          THEN [Fail(u, "Failed to transform image") EXCEPT !.calls = @ + 1]
                        ELSE IF ~ApplyShapeMask(c.shape).ok
                          THEN [Fail(u, ApplyShapeMask(c.shape).error) EXCEPT !.calls = @ + 1]
                        ELSE [c EXCEPT !.calls = @ + 1, !.pc = "putShaped"]]
         ELSE /\ Fault(outcome)
              /\ up' = [up EXCEPT ![u] =
                   [Fail(u, IF outcome = "error" THEN "Failed to upload original image"
                                                 ELSE "Failed to upload customized image")
                      EXCEPT !.calls = @ + 1]]
              /\ UNCHANGED <<store, written>>
  /\ UNCHANGED <<form, supabase, cleanupSecret, q, fetched, tr, orders, clock, left, requests, completed, rcVars>>

\* await upload(shapedFilePath) of lines 497-503, then 505-546
UploadPutShaped(u) ==
  /\ up[u].pc = "putShaped"
  /\ \E outcome \in Outcomes :
       LET c == up[u] IN
       /\ Fault(outcome)
       /\ IF outcome = "ok"
            THEN /\ store' = Upload(store, ShapedFilePath(c), Shaped(c.buffer, c.shape), clock)
                 /\ written' = Record(written, ShapedFilePath(c), Shaped(c.buffer, c.shape))
                 /\ up' = [up EXCEPT ![u] = [c EXCEPT !.calls = @ + 1, !.pc = "done"]]
                 /\ completed' = completed \cup
                      {[by |-> u, buffer |-> c.buffer, shape |-> c.shape,
                        originalFileId |-> OriginalFilePath(c),
                        shapedFileId |-> ShapedFilePath(c),
                        sessionId |-> c.sessionId,
                        sessionIdUsed |-> c.finalSessionId,
                        productIdUsed |-> c.productId,
                        sessionIdChanged |-> c.sessionIdChanged,
                        sessionIdChangeReason |-> c.sessionIdChangeReason,
                        ledgerFailed |-> c.ledgerFailed, cleaned |-> c.cleaned,
                        existed |-> c.existed]}
            ELSE /\ up' = [up EXCEPT ![u] =
                      [Fail(u, IF outcome = "error" THEN "Failed to upload shaped image"
                                                    ELSE "Failed to upload customized image")
                         EXCEPT !.calls = @ + 1]]
                 /\ UNCHANGED <<store, written, completed>>
  /\ UNCHANGED <<form, supabase, cleanupSecret, q, fetched, tr, orders, clock, left, requests, rcVars>>

\* a millisecond passes
Tick ==
  /\ clock < ClockStart + MaxTicks
  /\ clock' = clock + 1
  /\ UNCHANGED <<form, supabase, cleanupSecret, q, fetched, tr, store, orders, faults, up, left, requests, written, completed, rcVars>>

(***************************************************************************)
(* SessionUploadService.getOriginalFile.                                   *)
(***************************************************************************)
OriginalPrefix == <<"o", "r", "i", "g", "i", "n", "a", "l">>

NoFetch ==
  [pc |-> "idle", by |-> "", sessionId |-> <<>>, expected |-> Null,
   outcome |-> "", buffer |-> Null, name |-> <<>>, folderName |-> <<>>]

\* entries.filter(e => e.name === sessionId || e.name.startsWith(`${sessionId}-`))
Matched(entries, sessionId) ==
  {e \in entries : e.name = sessionId \/ StartsWith(e.name, sessionId \o Dash)}

\* origCandidates.includes(nameLower) || nameLower.startsWith('original')
\* (the names of the model are lower case)
IsOriginalName(name) == StartsWith(name, OriginalPrefix)

\* what the two nested loops of getOriginalFile can return: the first original
\* file of the first matched folder that holds one, in the order the store lists
\* them; skipped is a folder whose listing failed
OriginalsFound(st, sessionId, skipped) ==
  {[folderName |-> e.name, name |-> f.name,
    buffer |-> st[Join(FolderPath(e.name), f.name)].bytes] :
     <<e, f>> \in {<<e, f>> \in
        Matched(List(st, CustomizerRoot), sessionId) \X
          UNION {List(st, FolderPath(d.name)) : d \in List(st, CustomizerRoot)} :
            /\ e.name \notin skipped
            /\ f \in List(st, FolderPath(e.name))
            /\ IsOriginalName(f.name)
            /\ Join(FolderPath(e.name), f.name) \in DOMAIN st}}

\* getOriginalFile(sessionId) with the session id an upload returned; the
\* store may fail on the root listing (the call fails) or on one folder (skipped)
FetchOriginal(u) ==
  /\ fetched.pc = "idle"
  /\ up[u].pc = "done"
  /\ \E outcome \in Outcomes, failedOn \in {"root", "folder"} :
       /\ Fault(outcome)
       /\ LET sessionId == up[u].finalSessionId
              call == [NoFetch EXCEPT !.pc = "done", !.by = u, !.sessionId = sessionId,
                                      !.expected = up[u].buffer]
              matched == Matched(List(store, CustomizerRoot), sessionId)
          IN IF ~Configured(supabase)
               THEN fetched' = [call EXCEPT !.outcome = "Supabase is not configured"]
             ELSE IF outcome # "ok" /\ failedOn = "root"
               THEN fetched' = [call EXCEPT !.outcome = "Failed to download original"]
             ELSE \E skipped \in (IF outcome = "ok" THEN {{}}
                                   ELSE {{e.name} : e \in matched}) :
                    LET found == OriginalsFound(store, sessionId, skipped)
                    IN IF outcome = "throw"
                         THEN fetched' = [call EXCEPT !.outcome = "Failed to download original"]
                       ELSE IF found = {}
                         THEN fetched' = [call EXCEPT !.outcome = "Original file not found for this session"]
                       ELSE \E r \in found :
                              fetched' = [call EXCEPT !.outcome = "ok", !.buffer = r.buffer,
                                                      !.name = r.name,
                                                      !.folderName = r.folderName]
  /\ UNCHANGED <<form, supabase, cleanupSecret, q, tr, store, orders, clock, upVars, rcVars>>

(***************************************************************************)
(* The lookups by session id: getLatestShapeBySession, getQrFile,          *)
(* getQrPublicUrl, getShapesBySession, getShapeTypesBySession; and         *)
(* storeSessionFiles, which stores the QR file they look for.              *)
(***************************************************************************)
NoBytes == <<>>
NoQuery ==
  [pc |-> "idle", op |-> "", sessionId |-> <<>>, productId |-> <<>>, shape |-> <<>>,
   outcome |-> "", folder |-> <<>>, name |-> <<>>, timestamp |-> 0,
   buffer |-> NoBytes, found |-> {}, at |-> <<>>, skipped |-> {}]

\* the characters of the names, in the order of their codes
Ascii == <<"-", ".", "/">> \o Digits \o UpperCase \o <<"_">> \o LowerCase
Code(ch) == CHOOSE i \in 1..Len(Ascii) : Ascii[i] = ch

\* a < b for two names, as the store orders the entries of a listing
Less(a, b) ==
  \E i \in 1..(Len(a) + 1) :
    /\ i <= Len(b)
    /\ SubSeq(a, 1, i - 1) = SubSeq(b, 1, i - 1)
    /\ i <= Len(a) => Code(a[i]) < Code(b[i])

\* the first of a set of <<folder entry, file entry>> in the order of the
\* two nested for loops: folders by name, then files by name
Before(x, y) ==
  \/ Less(x[1].name, y[1].name)
  \/ x[1].name = y[1].name /\ Less(x[2].name, y[2].name)
FirstOf(pairs) == CHOOSE x \in pairs : \A y \in pairs : y = x \/ Before(x, y)

EndsWith(s, suffix) ==
  Len(s) >= Len(suffix) /\ SubSeq(s, Len(s) - Len(suffix) + 1, Len(s)) = suffix

IsLetter(ch) == \E j \in 1..26 : LowerCase[j] = ch

\* base.match(/^([a-z]+)[_\-]?.*/i): the letters the base of the name starts with
ShapeCandidate(name) ==
  LET base == SplitFirst(ToLowerCase(name), ".")
      k == CHOOSE k \in 0..Len(base) :
             /\ \A i \in 1..k : IsLetter(base[i])
             /\ k < Len(base) => ~IsLetter(base[k + 1])
  IN SubSeq(base, 1, k)

\* the file is a shaped PNG: not original.png, a .png, and its name starts
\* with a known shape (1083-1096, 1204-1216)
IsShapedPng(name) ==
  /\ ToLowerCase(name) # OriginalPng
  /\ EndsWith(ToLowerCase(name), DotPng)
  /\ ShapeCandidate(name) \in ValidShapes

\* f.name.match(/(\d{10,})/): the first run of ten digits or more, as a number
\* of milliseconds (1110-1119)
NameTimestamp(name) ==
  LET starts == {i \in 1..Len(name) :
                   /\ i + 9 <= Len(name)
                   /\ \A j \in i..(i + 9) : IsDigit(name[j])}
  IN IF starts = {} THEN 0
     ELSE LET i == CHOOSE i \in starts : \A j \in starts : i <= j
              run == SubSeq(name, i, i + DigitsPrefix(SubSeq(name, i, Len(name))) - 1)
          IN IF Len(run) < 13 THEN ToInt(run) * 1000 ELSE ToInt(run)

\* the timestamp of a listed file (1100-1119)
TimestampOf(f) == IF f.updated_at # NoTs THEN f.updated_at ELSE NameTimestamp(f.name)

\* the narrowing by productId (1062-1068)
FilteredMatched(entries, sessionId, productId) ==
  IF productId = <<>> THEN Matched(entries, sessionId)
  ELSE {e \in Matched(entries, sessionId) :
          e.name = Concat(<<sessionId, Dash, productId>>) \/ e.name = sessionId}

\* the <<folder entry, file entry>> pairs the nested loops of a lookup visit
Visited(st, entries, skipped) ==
  UNION {{<<e, f>> : f \in List(st, FolderPath(e.name))} :
           e \in {d \in entries : d.name \notin skipped}}

\* the shaped PNGs getLatestShapeBySession compares (1072-1099)
ShapeCandidates(st, sessionId, productId, shape, skipped) ==
  {x \in Visited(st, FilteredMatched(List(st, CustomizerRoot), sessionId, productId), skipped) :
     /\ IsShapedPng(x[2].name)
     /\ shape # <<>> => ToLowerCase(shape) = ShapeCandidate(x[2].name)}

\* a pick that is not the latest
Best_First(pairs) == FirstOf(pairs)

\* `if (!best || ts > best.timestamp) best = ...` over the loops: the first
\* of the pairs with the greatest timestamp
Best(pairs) ==
  FirstOf({x \in pairs : \A y \in pairs : TimestampOf(y[2]) <= TimestampOf(x[2])})

QuerySessions == {SessX, SessXDashY}

\* the result of a lookup that returned the file x = <<folder entry, file entry>>
Returned(c, st, x) ==
  [c EXCEPT !.outcome = "ok", !.folder = FolderPath(x[1].name), !.name = x[2].name,
            !.timestamp = TimestampOf(x[2]),
            !.buffer = st[Join(FolderPath(x[1].name), x[2].name)].bytes]

\* a lookup on the store: the root listing may fail (the call fails), or the
\* listing of one matched folder (the folder is passed over), or, in a lookup
\* that downloads, the download of one file (the file is passed over);
\* skipped holds the name of the folder or the path of the file
Lookup(c, failure, downloads, result(_, _)) ==
  /\ q.pc = "idle"
  /\ \E outcome \in Outcomes, failedOn \in {"root", "later"} :
       /\ Fault(outcome)
       /\ LET call == [c EXCEPT !.pc = "done", !.at = store]
              matched == Matched(List(store, CustomizerRoot), c.sessionId)
              files == IF downloads
                         THEN UNION {Below(store, FolderPath(e.name)) : e \in matched}
                         ELSE {}
          IN IF ~Configured(supabase)
               THEN q' = [call EXCEPT !.outcome = "Supabase is not configured"]
             ELSE IF outcome # "ok" /\ (failedOn = "root" \/ matched = {})
               THEN q' = [call EXCEPT !.outcome = failure]
             ELSE \E skipped \in (IF outcome = "ok" THEN {{}}
                                   ELSE {{e.name} : e \in matched}
                                          \cup {{path} : path \in files}) :
                    q' = result([call EXCEPT !.skipped = skipped], skipped)
  /\ UNCHANGED <<form, supabase, cleanupSecret, fetched, tr, store, orders, clock, upVars, rcVars>>

\* getLatestShapeBySession(sessionId, {shape, productId}) (1028-1153)
LatestShape(call, skipped) ==
  LET pairs == ShapeCandidates(store, call.sessionId, call.productId, call.shape, skipped)
  IN IF pairs = {} THEN [call EXCEPT !.outcome = "No shaped image found for this session"]
     ELSE Returned(call, store, Best(pairs))

GetLatestShapeBySession ==
  \E sessionId \in QuerySessions, productId \in {<<>>, Prod1}, shape \in {<<>>, Circle} :
    Lookup([NoQuery EXCEPT !.op = "getLatestShapeBySession", !.sessionId = sessionId,
                           !.productId = productId, !.shape = shape],
           "Failed to fetch shaped image", FALSE, LatestShape)

QrPng == <<"q", "r", ".", "p", "n", "g">>
ShapePng == <<"s", "h", "a", "p", "e", ".", "p", "n", "g">>
Qr == <<"q", "r">>

\* getQrPublicUrl: qrCandidates.includes(nameLower) || nameLower.startsWith('qr')
\* with qrCandidates = ['qr.png', 'qr_code.png', 'qrcode.png'] (158-164)
IsQrNameOfUrl(name) ==
  \/ ToLowerCase(name) \in
       {QrPng, <<"q", "r", "_", "c", "o", "d", "e", ".", "p", "n", "g">>,
        <<"q", "r", "c", "o", "d", "e", ".", "p", "n", "g">>}
  \/ StartsWith(ToLowerCase(name), Qr)

\* getQrFile: the same test with qrCandidates = ['original.png',
\* 'original_code.png', 'originalcode.png'] (226-231)
IsQrNameOfFile(name) ==
  \/ ToLowerCase(name) \in
       {OriginalPng,
        <<"o", "r", "i", "g", "i", "n", "a", "l", "_", "c", "o", "d", "e", ".", "p", "n", "g">>,
        <<"o", "r", "i", "g", "i", "n", "a", "l", "c", "o", "d", "e", ".", "p", "n", "g">>}
  \/ StartsWith(ToLowerCase(name), Qr)

\* the file the nested loops of getQrPublicUrl stop at
QrUrlSelected(st, sessionId, skipped) ==
  {x \in Visited(st, Matched(List(st, CustomizerRoot), sessionId), skipped) :
     IsQrNameOfUrl(x[2].name)}

\* the files the nested loops of getQrFile may stop at: a file whose download
\* failed is passed over
QrFileSelected(st, sessionId, skipped) ==
  {x \in Visited(st, Matched(List(st, CustomizerRoot), sessionId), skipped) :
     /\ IsQrNameOfFile(x[2].name)
     /\ Join(FolderPath(x[1].name), x[2].name) \notin skipped}

QrNotFound == "QR not found for this session"

QrPublicUrl(call, skipped) ==
  LET pairs == QrUrlSelected(store, call.sessionId, skipped)
  IN IF pairs = {} THEN [call EXCEPT !.outcome = QrNotFound]
     ELSE Returned(call, store, FirstOf(pairs))

QrFile(call, skipped) ==
  LET pairs == QrFileSelected(store, call.sessionId, skipped)
  IN IF pairs = {} THEN [call EXCEPT !.outcome = QrNotFound]
     ELSE Returned(call, store, FirstOf(pairs))

\* getQrPublicUrl(sessionId) (128-193)
GetQrPublicUrl ==
  \E sessionId \in QuerySessions :
    Lookup([NoQuery EXCEPT !.op = "getQrPublicUrl", !.sessionId = sessionId],
           "Failed to fetch QR", FALSE, QrPublicUrl)

\* getQrFile(sessionId) (195-286)
GetQrFile ==
  \E sessionId \in QuerySessions :
    Lookup([NoQuery EXCEPT !.op = "getQrFile", !.sessionId = sessionId],
           "Failed to download QR", TRUE, QrFile)

\* getShapesBySession: every .png of the matched folders but original.png (973-1014)
ShapesBySession(call, skipped) ==
  [call EXCEPT !.outcome = "ok",
     !.found = {<<FolderPath(x[1].name), x[2].name>> :
                  x \in {y \in Visited(store, Matched(List(store, CustomizerRoot),
                                                     call.sessionId), skipped) :
                           /\ y[2].name # OriginalPng
                           /\ EndsWith(ToLowerCase(y[2].name), DotPng)}}]

GetShapesBySession ==
  \E sessionId \in QuerySessions :
    Lookup([NoQuery EXCEPT !.op = "getShapesBySession", !.sessionId = sessionId],
           "Failed to fetch shaped images", FALSE, ShapesBySession)

\* getShapeTypesBySession: the known shapes of the shaped PNGs, per folder (1186-1221)
ShapeTypesBySession(call, skipped) ==
  [call EXCEPT !.outcome = "ok",
     !.found = {<<FolderPath(x[1].name), ShapeCandidate(x[2].name)>> :
                  x \in {y \in Visited(store, Matched(List(store, CustomizerRoot),
                                                     call.sessionId), skipped) :
                           IsShapedPng(y[2].name)}}]

GetShapeTypesBySession ==
  \E sessionId \in QuerySessions :
    Lookup([NoQuery EXCEPT !.op = "getShapeTypesBySession", !.sessionId = sessionId],
           "Failed to fetch shape types", FALSE, ShapeTypesBySession)

\* storeSessionFiles(sessionId, {original, shape, qr}) (58-121): three puts
\* under customizer/<sessionId>/, the call failing at the first put that
\* fails; a session stores its files once
StoreSessionFiles ==
  \E sessionId \in {SessX}, outcome \in Outcomes :
    LET folder == FolderPath(sessionId)
        names == <<OriginalPng, ShapePng, QrPng>>
    IN /\ Configured(supabase)
       /\ Below(store, folder) = {}
       /\ Fault(outcome)
       /\ \E stored \in (IF outcome = "ok" THEN {3} ELSE 0..2) :
            LET puts == [k \in {Join(folder, names[i]) : i \in 1..stored} |->
                           [bytes |-> <<"stored", sessionId>>, updated_at |-> clock]]
            IN /\ store' = [k \in DOMAIN store \cup DOMAIN puts |->
                              IF k \in DOMAIN puts THEN puts[k] ELSE store[k]]
               /\ written' = [k \in DOMAIN written \cup DOMAIN puts |->
                                IF k \in DOMAIN puts THEN puts[k].bytes ELSE written[k]]
       /\ UNCHANGED <<form, supabase, cleanupSecret, q, fetched, tr, orders, clock, up, left, requests, completed, rcVars>>

\* transformImage(buffer, {x, y, zoom}, 500, 500) on the arguments drawn
Transform ==
  /\ tr.pc = "input"
  /\ tr' = [tr EXCEPT !.pc = "done",
                      !.out = TransformImage([x |-> Num(tr.x), y |-> Num(tr.y),
                                              zoom |-> Num(tr.zoom)],
                                             outputWidth, outputHeight)]
  /\ UNCHANGED <<form, supabase, cleanupSecret, q, fetched, store, orders, clock, faults, upVars, rcVars>>

(***************************************************************************)
(* cleanupOrphanedSessions and deleteSessionsNotInOrders: one action per   *)
(* awaited call, and one for the head of the for loop.                     *)
(***************************************************************************)
ProductsRoot == <<"p", "r", "o", "d", "u", "c", "t", "s">>
QrCodePng == <<"q", "r", "_", "c", "o", "d", "e", ".", "p", "n", "g">>

\* `products/${code}/${code}.png`, `products/${code}/qr_code.png`
ProductPaths(code) ==
  {Concat(<<ProductsRoot, Slash, code, Slash, code, DotPng>>),
   Concat(<<ProductsRoot, Slash, code, Slash, QrCodePng>>)}

NoReclaim ==
  [pc |-> "idle", op |-> "", graceDays |-> 0, force |-> FALSE,
   listed |-> {}, todo |-> {}, existingOrders |-> <<>>, now |-> 0,
   folderName |-> <<>>, filePaths |-> {}, cascade |-> {}, code |-> <<>>,
   deletedFolders |-> {}, deletedUploads |-> {}, skippedFolders |-> {}, errors |-> {},
   error |-> "", failedAt |-> "", calls |-> 0, faulted |-> {},
   via |-> "", authorized |-> FALSE]

\* body.graceDays as a caller sends it; 0 stands for an absent or zero value
BodyGraceDays == {0, DefaultGraceDays, 1}

\* body?.graceDays || 7, and the default of the graceDays parameter
GraceDaysOf(bodyGraceDays) ==
  IF bodyGraceDays = 0 THEN DefaultGraceDays ELSE bodyGraceDays

\* latestTs of lines 639-648: the newest parsable timestamp of the listed files, 0 if none
LatestTs(files) ==
  LET stamps == {f.updated_at : f \in {g \in files : g.updated_at # NoTs}}
  IN IF stamps = {} THEN 0
     ELSE LET newest == CHOOSE t \in stamps : \A o \in stamps : o <= t
          IN IF newest > 0 THEN newest ELSE 0

\* the comparison turned round
WithinGrace_Reversed(ageMs, graceMs) == ageMs >= graceMs

\* ageMs <= graceMs of line 673
WithinGrace(ageMs, graceMs) == ageMs <= graceMs

\* the whole folder name taken for the session id
SessionOfFolder_Whole(folderName) == folderName

\* folderName.split('-')[0]
SessionOfFolder(folderName) == SplitFirst(folderName, "-")

\* getUploadsBySession(sessionId)
UploadsBySession(sessionId) == {u \in uploads : u.session_id = sessionId}

\* `product:${u.code}`
ProductError(code) == <<"p", "r", "o", "d", "u", "c", "t", ":">> \o code

\* the failure of one folder ending the loop
FolderFailed_Abort(c, folderPath) ==
  [c EXCEPT !.errors = @ \cup {folderPath}, !.pc = "done"]

\* errors.push({ folder: folderPath, ... }); continue
FolderFailed(c, folderPath) ==
  [c EXCEPT !.errors = @ \cup {folderPath}, !.pc = "next"]

\* a skip that is not recorded
FolderSkipped_Silent(c, folderPath) ==
  [c EXCEPT !.pc = "next"]

\* skippedFolders.push(folderPath); continue
FolderSkipped(c, folderPath) ==
  [c EXCEPT !.skippedFolders = @ \cup {folderPath}, !.pc = "next"]

\* deletedFolders.push(folderPath)
FolderDeleted(c, folderPath) ==
  [c EXCEPT !.deletedFolders = @ \cup {folderPath}, !.pc = "next"]

\* the exception that ends the whole call
ReclaimFail(kind) ==
  [rc EXCEPT !.pc = "failed", !.error = kind, !.failedAt = rc.pc]

JobFailed(op) ==
  IF op = "cleanup" THEN "Cleanup job failed" ELSE "Failed to delete sessions not in orders"

\* the service method entered: its check before the first await (573-577, 730-734)
Called(op, graceDays, force) ==
  LET c == [NoReclaim EXCEPT !.op = op, !.graceDays = graceDays, !.force = force,
                             !.pc = "call"]
  IN IF Configured(supabase)
       THEN [c EXCEPT !.pc = "listRoot"]
       ELSE [c EXCEPT !.pc = "failed",
                      !.error = "Supabase service is not configured",
                      !.failedAt = "call"]

\* the call and the check before the first await (565-581, 724-739)
ReclaimCall ==
  /\ rc.pc = "idle"
  /\ \E op \in {"cleanup", "deleteMissing"}, body \in BodyGraceDays, force \in BOOLEAN :
       /\ op = "deleteMissing" => body = 0
       /\ rc' = Called(op, GraceDaysOf(body), force)
  /\ UNCHANGED <<form, supabase, cleanupSecret, q, fetched, tr, store, orders, clock, faults, upVars, uploads, store0>>

\* await list('customizer') (585-591, 742-752)
ReclaimListRoot ==
  /\ rc.pc = "listRoot"
  /\ \E outcome \in Outcomes :
       /\ Fault(outcome)
       /\ LET entries == {e.name : e \in List(store, CustomizerRoot)}
          IN rc' = IF outcome # "ok"
                     THEN [ReclaimFail(JobFailed(rc.op)) EXCEPT !.calls = @ + 1]
                   ELSE IF rc.op = "deleteMissing" /\ entries = {}
                     THEN [rc EXCEPT !.calls = @ + 1, !.pc = "done"]
                   ELSE [rc EXCEPT !.calls = @ + 1, !.listed = entries, !.todo = entries,
                                   !.pc = "getOrders"]
  /\ UNCHANGED <<form, supabase, cleanupSecret, q, fetched, tr, store, orders, clock, upVars, uploads, store0>>

\* the pass going on without a ledger, as the upload does
LedgerFailed_FallBack(c) ==
  [c EXCEPT !.failedAt = "getOrders", !.existingOrders = <<>>, !.now = clock,
            !.pc = IF c.listed = {} THEN "done" ELSE "next"]

\* getOrders throwing inside the outer try: the catch of 708-713 and 855-858
LedgerFailed(c) ==
  [c EXCEPT !.pc = "failed", !.error = JobFailed(c.op), !.failedAt = "getOrders"]

\* await getOrders(250, 'any') (593-607, 754-757)
ReclaimGetOrders ==
  /\ rc.pc = "getOrders"
  /\ \E outcome \in ThrowOutcomes :
       /\ Fault(outcome)
       /\ rc' = IF outcome # "ok"
                  THEN [LedgerFailed(rc) EXCEPT !.calls = @ + 1]
                  ELSE [rc EXCEPT !.calls = @ + 1, !.existingOrders = orders,
                                  !.now = clock,
                                  !.pc = IF rc.listed = {} THEN "done" ELSE "next"]
  /\ UNCHANGED <<form, supabase, cleanupSecret, q, fetched, tr, store, orders, clock, upVars, uploads, store0>>

\* the head of the for loop over entries, and for deleteSessionsNotInOrders the
\* checks of 765-785 that come before the folder is listed
ReclaimNext ==
  /\ rc.pc = "next"
  /\ IF rc.todo = {}
       THEN rc' = [rc EXCEPT !.pc = "done"]
       ELSE \E folderName \in rc.todo :
              LET c == [rc EXCEPT !.todo = @ \ {folderName}, !.folderName = folderName,
                                  !.filePaths = {}]
                  folderPath == FolderPath(folderName)
                  sessionId == SessionOfFolder(folderName)
              IN rc' = IF rc.op = "cleanup" THEN [c EXCEPT !.pc = "listFolder"]
                       ELSE IF sessionId = <<>> THEN FolderSkipped(c, folderPath)
                       ELSE IF IsReferenced(rc.existingOrders, sessionId) /\ ~rc.force
                         THEN FolderSkipped(c, folderPath)
                       ELSE [c EXCEPT !.pc = "listFolder"]
  /\ UNCHANGED <<form, supabase, cleanupSecret, q, fetched, tr, store, orders, clock, faults, upVars, uploads, store0>>

\* what cleanupOrphanedSessions does with a non-empty listing (638-697)
CleanupDecision(c, folderPath, files) ==
  LET latestTs == LatestTs(files)
      filePaths == {Join(folderPath, f.name) : f \in files}
      graceMs == c.graceDays * DayMs
  IN IF c.force THEN [c EXCEPT !.filePaths = filePaths, !.pc = "removeFiles"]
     ELSE IF latestTs = 0 THEN FolderSkipped(c, folderPath)
     ELSE IF WithinGrace(c.now - latestTs, graceMs) THEN FolderSkipped(c, folderPath)
     ELSE IF IsReferenced(c.existingOrders, SessionOfFolder(c.folderName))
       THEN FolderSkipped(c, folderPath)
     ELSE [c EXCEPT !.filePaths = filePaths, !.pc = "removeFiles"]

\* await list(folderPath) (615-624 and 638-697, 788-812)
ReclaimListFolder ==
  /\ rc.pc = "listFolder"
  /\ \E outcome \in Outcomes :
       /\ Fault(outcome)
       /\ LET folderPath == FolderPath(rc.folderName)
              files == List(store, folderPath)
              c == [rc EXCEPT !.calls = @ + 1,
                              !.faulted = IF outcome = "ok" THEN @ ELSE @ \cup {folderPath}]
          IN rc' = IF outcome # "ok" THEN FolderFailed(c, folderPath)
                   ELSE IF files = {}
                     THEN [c EXCEPT !.filePaths = {folderPath}, !.pc = "removeEmpty"]
                   ELSE IF rc.op = "cleanup" THEN CleanupDecision(c, folderPath, files)
                   ELSE [c EXCEPT !.filePaths = {Join(folderPath, f.name) : f \in files},
                                  !.pc = "removeFiles"]
  /\ UNCHANGED <<form, supabase, cleanupSecret, q, fetched, tr, store, orders, clock, upVars, uploads, store0>>

\* await remove([folderPath]) of an entry with no files (626-635, 799-808)
ReclaimRemoveEmpty ==
  /\ rc.pc = "removeEmpty"
  /\ \E outcome \in Outcomes :
       /\ Fault(outcome)
       /\ store' = IF outcome = "ok" THEN Remove(store, rc.filePaths) ELSE store
       /\ LET folderPath == FolderPath(rc.folderName)
              c == [rc EXCEPT !.calls = @ + 1,
                              !.faulted = IF outcome = "ok" THEN @ ELSE @ \cup {folderPath}]
          IN rc' = IF outcome = "ok" THEN FolderDeleted(c, folderPath)
                                     ELSE FolderFailed(c, folderPath)
  /\ UNCHANGED <<form, supabase, cleanupSecret, q, fetched, tr, orders, clock, upVars, uploads, store0>>

\* await remove(filePaths) (653-663, 698-707, 813-822)
ReclaimRemoveFiles ==
  /\ rc.pc = "removeFiles"
  /\ \E outcome \in Outcomes :
       /\ Fault(outcome)
       /\ store' = IF outcome = "ok" THEN Remove(store, rc.filePaths) ELSE store
       /\ LET folderPath == FolderPath(rc.folderName)
              c == [rc EXCEPT !.calls = @ + 1,
                              !.faulted = IF outcome = "ok" THEN @ ELSE @ \cup {folderPath}]
          IN rc' = IF outcome # "ok" THEN FolderFailed(c, folderPath)
                   ELSE IF rc.op = "cleanup" THEN FolderDeleted(c, folderPath)
                   ELSE [FolderDeleted(c, folderPath) EXCEPT !.pc = "getUploads"]
  /\ UNCHANGED <<form, supabase, cleanupSecret, q, fetched, tr, orders, clock, upVars, uploads, store0>>

\* the next record of the for loop over uploads (827), or the next folder
NextCascade(c) ==
  IF c.cascade = {} THEN {[c EXCEPT !.pc = "next"]}
  ELSE {[c EXCEPT !.cascade = @ \ {u}, !.code = u.code, !.pc = "removeProduct"] :
          u \in c.cascade}

\* await getUploadsBySession(sessionId) (826, 845-848)
ReclaimGetUploads ==
  /\ rc.pc = "getUploads"
  /\ \E outcome \in ThrowOutcomes :
       /\ Fault(outcome)
       /\ LET found == IF outcome = "ok"
                         THEN UploadsBySession(SessionOfFolder(rc.folderName)) ELSE {}
          IN rc' \in NextCascade([rc EXCEPT !.calls = @ + 1, !.cascade = found])
  /\ UNCHANGED <<form, supabase, cleanupSecret, q, fetched, tr, store, orders, clock, upVars, uploads, store0>>

\* await remove of the product's stored files (830-837, 841-843)
ReclaimRemoveProductFiles ==
  /\ rc.pc = "removeProduct"
  /\ \E outcome \in Outcomes :
       /\ Fault(outcome)
       /\ store' = IF outcome = "ok" THEN Remove(store, ProductPaths(rc.code)) ELSE store
       /\ LET c == [rc EXCEPT !.calls = @ + 1]
          IN IF outcome = "throw"
               THEN rc' \in NextCascade([c EXCEPT !.errors = @ \cup {ProductError(rc.code)}])
               ELSE rc' = [c EXCEPT !.pc = "deleteUpload"]
  /\ UNCHANGED <<form, supabase, cleanupSecret, q, fetched, tr, orders, clock, upVars, uploads, store0>>

\* await deleteUpload(u.code) (839-843)
ReclaimDeleteUpload ==
  /\ rc.pc = "deleteUpload"
  /\ \E outcome \in ThrowOutcomes :
       /\ Fault(outcome)
       /\ uploads' = IF outcome = "ok" THEN {u \in uploads : u.code # rc.code} ELSE uploads
       /\ LET c == [rc EXCEPT !.calls = @ + 1]
          IN rc' \in NextCascade(
               IF outcome = "ok" THEN [c EXCEPT !.deletedUploads = @ \cup {rc.code}]
                                 ELSE [c EXCEPT !.errors = @ \cup {ProductError(rc.code)}])
  /\ UNCHANGED <<form, supabase, cleanupSecret, q, fetched, tr, store, orders, clock, upVars, store0>>

NextReclaim ==
  \/ ReclaimCall
  \/ ReclaimListRoot
  \/ ReclaimGetOrders
  \/ ReclaimNext
  \/ ReclaimListFolder
  \/ ReclaimRemoveEmpty
  \/ ReclaimRemoveFiles
  \/ ReclaimGetUploads
  \/ ReclaimRemoveProductFiles
  \/ ReclaimDeleteUpload

(***************************************************************************)
(* The HTTP entrypoints of the reclaim operations.                         *)
(***************************************************************************)
Secret == "s3cret"
WrongSecret == "guess"
\* process.env.CLEANUP_SECRET: unset, or set
Secrets == {Null, Secret}
\* the x-cleanup-secret header of a request: absent, right, wrong
HeaderSecrets == {Null, Secret, WrongSecret}
\* the force query parameter of DELETE /generate/cleanup-orphans
ForceQueries == {Null, "true", "1", "false"}

\* if (!secret || secret !== configured): TRUE when the header passes
SecretMatches(secret, configured) == secret # Null /\ secret = configured

\* throw new HttpException('Unauthorized', 401)
Unauthorized(via) ==
  [NoReclaim EXCEPT !.pc = "failed", !.error = "Unauthorized", !.failedAt = "http",
                    !.via = via]

\* the request handed to the service; authorized records that a check on the
\* request's secret was made and passed
Served(via, op, graceDays, force, secret) ==
  [Called(op, graceDays, force) EXCEPT
     !.via = via,
     !.authorized = cleanupSecret # Null /\ SecretMatches(secret, cleanupSecret)]

\* POST /customizer/cleanup (controller 362-416)
HttpRunCleanup ==
  /\ rc.pc = "idle"
  /\ \E secret \in HeaderSecrets, body \in BodyGraceDays, force \in BOOLEAN :
       rc' = IF cleanupSecret # Null /\ ~SecretMatches(secret, cleanupSecret)
               THEN Unauthorized("cleanup")
             ELSE IF force /\ cleanupSecret # Null /\ ~SecretMatches(secret, cleanupSecret)
               THEN Unauthorized("cleanup")
             ELSE Served("cleanup", "cleanup", GraceDaysOf(body), force, secret)
  /\ UNCHANGED <<form, supabase, cleanupSecret, q, fetched, tr, store, orders, clock, faults, upVars, uploads, store0>>

\* POST /customizer/delete-missing-orders (controller 424-459)
HttpDeleteMissingSessions ==
  /\ rc.pc = "idle"
  /\ \E secret \in HeaderSecrets, force \in BOOLEAN :
       rc' = IF cleanupSecret # Null /\ ~SecretMatches(secret, cleanupSecret)
               THEN Unauthorized("delete-missing-orders")
               ELSE Served("delete-missing-orders", "deleteMissing", DefaultGraceDays,
                           force, secret)
  /\ UNCHANGED <<form, supabase, cleanupSecret, q, fetched, tr, store, orders, clock, faults, upVars, uploads, store0>>

\* DELETE /generate/cleanup-orphans (generate.controller 82-88, generate.service 58-60):
\* no header is read and nothing is compared
HttpCleanupOrphans ==
  /\ rc.pc = "idle"
  /\ \E force \in ForceQueries :
       LET doForce == force = "true" \/ force = "1"
       IN rc' = [Called("deleteMissing", DefaultGraceDays, doForce) EXCEPT
                   !.via = "cleanup-orphans"]
  /\ UNCHANGED <<form, supabase, cleanupSecret, q, fetched, tr, store, orders, clock, faults, upVars, uploads, store0>>

\* the steps of a reclaim call once a service method is entered
ReclaimSteps ==
  \/ ReclaimListRoot
  \/ ReclaimGetOrders
  \/ ReclaimNext
  \/ ReclaimListFolder
  \/ ReclaimRemoveEmpty
  \/ ReclaimRemoveFiles
  \/ ReclaimGetUploads
  \/ ReclaimRemoveProductFiles
  \/ ReclaimDeleteUpload

NextHttp ==
  \/ HttpRunCleanup
  \/ HttpDeleteMissingSessions
  \/ HttpCleanupOrphans
  \/ ReclaimSteps

(***************************************************************************)
(* The contact form page: the attachment uploader and the submit handler.  *)
(***************************************************************************)
\* the page after DOMContentLoaded: uploads = [], activeUploads = 0, the
\* submit button as the markup has it; key is UPLOADCARE_PUBLIC_KEY being
\* set; inFlight, sending, picked, sent and sentWhileUploading are history
NoForm ==
  [key |-> TRUE, uploads |-> <<>>, activeUploads |-> 0, submitDisabled |-> FALSE,
   inFlight |-> {}, sending |-> 0, picked |-> 0, sent |-> 0,
   sentWhileUploading |-> FALSE]

\* item.status = status; item.url = url, on the entry of the list if it is still there
SetStatus(list, id, status, url) ==
  [i \in DOMAIN list |->
     IF list[i].id = id THEN [list[i] EXCEPT !.status = status, !.url = url] ELSE list[i]]

\* uploads.splice(idx, 1)
Splice(list, idx) == SubSeq(list, 1, idx - 1) \o SubSeq(list, idx + 1, Len(list))

\* uploads.some(u => u.status === 'uploading')
Working(list) == \E i \in DOMAIN list : list[i].status = "uploading"

\* if (activeUploads <= 0) setSubmitDisabled(false)
EnableWhenIdle(f) ==
  IF f.activeUploads <= 0 THEN [f EXCEPT !.submitDisabled = FALSE] ELSE f

\* uploadFile(item) up to its fetch (91-109)
UploadFile(f, id) ==
  IF ~f.key
    THEN [f EXCEPT !.uploads = SetStatus(@, id, "error", "")]
    ELSE [f EXCEPT !.uploads = SetStatus(@, id, "uploading", ""),
                   !.activeUploads = @ + 1,
                   !.submitDisabled = TRUE,
                   !.inFlight = @ \cup {id}]

\* the change handler of the file input, for one picked file (144-164)
FormPickFile ==
  /\ form.picked < MaxFiles
  /\ \E size \in {"fits", "tooLarge"} :
       LET id == form.picked + 1
           f == [form EXCEPT !.picked = id]
       IN form' = IF size = "tooLarge" THEN f
                  ELSE UploadFile([f EXCEPT !.uploads =
                                     Append(@, [id |-> id, status |-> "pending", url |-> ""])],
                                  id)
  /\ UNCHANGED <<supabase, cleanupSecret, q, fetched, tr, store, orders, clock, faults, upVars, rcVars>>

\* the fetch of uploadFile settling: the second then, or the catch (109-133)
FormUploadSettled ==
  /\ \E id \in form.inFlight, outcome \in {"done", "error"} :
       form' = EnableWhenIdle(
                 [form EXCEPT !.uploads = SetStatus(@, id, outcome,
                                                    IF outcome = "done" THEN "cdn" ELSE ""),
                              !.activeUploads = @ - 1,
                              !.inFlight = @ \ {id}])
  /\ UNCHANGED <<supabase, cleanupSecret, q, fetched, tr, store, orders, clock, faults, upVars, rcVars>>

\* the click handler of an entry's Remove button (77-82)
FormRemove ==
  /\ \E idx \in DOMAIN form.uploads :
       /\ form.uploads[idx].status # "uploading"
       /\ form' = [form EXCEPT !.uploads = Splice(@, idx)]
  /\ UNCHANGED <<supabase, cleanupSecret, q, fetched, tr, store, orders, clock, faults, upVars, rcVars>>

\* the submit handler, run when the visitor presses the enabled submit
\* button, up to its fetch of the email endpoint (168-262); filled is the
\* required fields being filled in
FormSubmit ==
  /\ ~form.submitDisabled
  /\ form.sent < MaxEmails
  /\ \E filled \in BOOLEAN :
       form' = IF Working(form.uploads) THEN form
               ELSE IF ~filled THEN form
               ELSE [form EXCEPT !.submitDisabled = TRUE,
                                 !.sending = @ + 1,
                                 !.sent = @ + 1,
                                 !.sentWhileUploading = @ \/ Working(form.uploads)]
  /\ UNCHANGED <<supabase, cleanupSecret, q, fetched, tr, store, orders, clock, faults, upVars, rcVars>>

\* the fetch of the email endpoint settling (262-312)
FormEmailSettled ==
  /\ form.sending > 0
  /\ \E result \in {"success", "failure", "error"} :
       form' = [form EXCEPT !.submitDisabled = FALSE,
                            !.sending = @ - 1,
                            !.uploads = IF result = "success" THEN <<>> ELSE @]
  /\ UNCHANGED <<supabase, cleanupSecret, q, fetched, tr, store, orders, clock, faults, upVars, rcVars>>

(***************************************************************************)
(* Stores a behaviour may start from.                                      *)
(***************************************************************************)
Obj(bytes, ts) == [bytes |-> bytes, updated_at |-> ts]
\* bytes stored before the behaviour starts; a buffer is <<who sent it, which call>>
OldBytes == <<"old", 0>>
OldTs == ClockStart - DefaultGraceDays * DayMs - 1
EdgeTs == ClockStart - DefaultGraceDays * DayMs
YoungTs == ClockStart - 1

\* an earlier upload of session x, product 1: original.png and a shaped file
StoreEmpty == [k \in {} |-> Obj(OldBytes, OldTs)]
StoreX1 ==
  [k \in {Join(SessionFolder(SessX, Prod1), OriginalPng),
          Join(SessionFolder(SessX, Prod1), ShapedFileName(Heart, OldTs))}
     |-> Obj(OldBytes, OldTs)]

UploadStores == {StoreEmpty, StoreX1}

InitUpload ==
  /\ supabase \in BOOLEAN
  /\ cleanupSecret = Null
  /\ fetched = NoFetch
  /\ q = NoQuery
  /\ form = NoForm
  /\ tr = NoTransform
  /\ store \in UploadStores
  /\ orders \in Ledgers
  /\ clock = ClockStart
  /\ faults = 0
  /\ up = [u \in Uploaders |-> NoCall]
  /\ written = [k \in {} |-> Null]
  /\ completed = {}
  /\ uploads = {}
  /\ rc = NoReclaim
  /\ store0 = store

\* one client calling uploadSessionImage again and again
InitSeq ==
  /\ InitUpload
  /\ left = [u \in Uploaders |-> IF u = "u1" THEN MaxUploads ELSE 0]
  /\ requests = SessionIds \cup {<<>>}

\* two clients, one call each
InitConc ==
  /\ InitUpload
  /\ left = [u \in Uploaders |-> 1]
  /\ requests = {SessX}

NextUpload ==
  \/ \E u \in Uploaders : UploadCall(u)
  \/ \E u \in Uploaders : UploadGetOrders(u)
  \/ \E u \in Uploaders : UploadListExisting(u)
  \/ \E u \in Uploaders : UploadListFinal(u)
  \/ \E u \in Uploaders : UploadRemove(u)
  \/ \E u \in Uploaders : UploadPutOriginal(u)
  \/ \E u \in Uploaders : UploadPutShaped(u)
  \/ Tick

SpecSeq == InitSeq /\ [][NextUpload]_vars

\* one upload of session x against a ledger that holds x and candidates of x
InitResolve ==
  /\ supabase = TRUE
  /\ cleanupSecret = Null
  /\ fetched = NoFetch
  /\ q = NoQuery
  /\ form = NoForm
  /\ tr = NoTransform
  /\ store \in UploadStores
  /\ orders \in {LedgerX1, LedgerHalf, LedgerFull}
  /\ clock = ClockStart
  /\ faults = 0
  /\ up = [u \in Uploaders |-> NoCall]
  /\ written = [k \in {} |-> Null]
  /\ completed = {}
  /\ uploads = {}
  /\ rc = NoReclaim
  /\ store0 = store
  /\ left = [u \in Uploaders |-> IF u = "u1" THEN 1 ELSE 0]
  /\ requests = {SessX}

SpecResolve == InitResolve /\ [][NextUpload]_vars

\* the steps of an upload once uploadSessionImage is past its checks
UploadSteps ==
  \/ \E u \in Uploaders : UploadGetOrders(u)
  \/ \E u \in Uploaders : UploadListExisting(u)
  \/ \E u \in Uploaders : UploadListFinal(u)
  \/ \E u \in Uploaders : UploadRemove(u)
  \/ \E u \in Uploaders : UploadPutOriginal(u)
  \/ \E u \in Uploaders : UploadPutShaped(u)

\* one upload, sent to POST /customizer/upload or made by a caller inside the
\* process, with any x, y, zoom and shape
InitRequest ==
  /\ InitUpload
  /\ supabase = TRUE
  /\ orders \in {LedgerNone, LedgerX1}
  /\ left = [u \in Uploaders |-> IF u = "u1" THEN 1 ELSE 0]
  /\ requests = {SessX, <<>>}

NextRequest ==
  \/ \E u \in Uploaders : HttpUploadImage(u)
  \/ \E u \in Uploaders : DirectUpload(u)
  \/ UploadSteps

SpecRequest == InitRequest /\ [][NextRequest]_vars
SpecConc == InitConc /\ [][NextUpload]_vars

(***************************************************************************)
(* Stores a reclaim pass may find: up to MaxFolders entries under          *)
(* customizer/, and the stored files of the recorded product uploads.      *)
(***************************************************************************)
Prod3 == <<"3">>
Code1 == <<"c", "1">>
Code2 == <<"c", "2">>

Folder(folderName, names, ts) ==
  [k \in {Join(FolderPath(folderName), n) : n \in names} |-> Obj(OldBytes, ts)]

Merge(f, g) == [k \in DOMAIN f \cup DOMAIN g |-> IF k \in DOMAIN f THEN f[k] ELSE g[k]]

ShapedOld == ShapedFileName(Heart, OldTs)

\* one old and one new file
FolderMixed ==
  Merge(Folder(Concat(<<SessY, Dash, Prod3>>), {OriginalPng}, OldTs),
        Folder(Concat(<<SessY, Dash, Prod3>>), {ShapedOld}, YoungTs))

\* a file right under customizer/: an entry whose listing is empty
StrayFile == [k \in {FolderPath(<<"z">>)} |-> Obj(OldBytes, OldTs)]

FolderUniverse ==
  {Folder(Concat(<<SessY, Dash, Prod1>>), {OriginalPng, ShapedOld}, OldTs),
   Folder(Concat(<<SessX, Dash, Prod1>>), {OriginalPng}, OldTs),
   Folder(Concat(<<SessX, Dash, Prod2>>), {OriginalPng}, YoungTs),
   Folder(Concat(<<SessY, Dash, Prod2>>), {OriginalPng}, EdgeTs),
   Folder(Concat(<<SessX, Dash, Prod3>>), {OriginalPng}, NoTs),
   Folder(Concat(<<SessDashX, Dash, Prod1>>), {OriginalPng}, OldTs),
   FolderMixed,
   StrayFile}

RECURSIVE MergeAll(_)
MergeAll(fs) ==
  IF fs = {} THEN StoreEmpty
  ELSE LET f == CHOOSE g \in fs : TRUE IN Merge(f, MergeAll(fs \ {f}))

ReclaimStores ==
  {MergeAll(fs) : fs \in {gs \in SUBSET FolderUniverse : Cardinality(gs) <= MaxFolders}}

ProductFiles(recs) ==
  [k \in UNION {ProductPaths(u.code) : u \in recs} |-> Obj(OldBytes, OldTs)]

UploadRecords ==
  {{},
   {[code |-> Code1, session_id |-> SessY]},
   {[code |-> Code1, session_id |-> SessY], [code |-> Code2, session_id |-> SessY]}}

InitReclaim ==
  /\ supabase = TRUE
  /\ cleanupSecret = Null
  /\ fetched = NoFetch
  /\ q = NoQuery
  /\ form = NoForm
  /\ tr = NoTransform
  /\ uploads \in UploadRecords
  /\ \E st \in ReclaimStores : store = Merge(st, ProductFiles(uploads))
  /\ orders \in {LedgerNone, LedgerX1}
  /\ clock = ClockStart
  /\ faults = 0
  /\ up = [u \in Uploaders |-> NoCall]
  /\ left = [u \in Uploaders |-> 0]
  /\ requests = {}
  /\ written = [k \in {} |-> Null]
  /\ completed = {}
  /\ rc = NoReclaim
  /\ store0 = store

NextReclaimPass ==
  \/ NextReclaim
  \/ Tick

SpecReclaim == InitReclaim /\ [][NextReclaimPass]_vars

\* one upload followed by getOriginalFile, over stores that hold other folders
\* of the same session and of a session whose id continues it with '-'
FolderX2 == Folder(Concat(<<SessX, Dash, Prod2>>), {OriginalPng}, YoungTs)
FolderXY1 == Folder(Concat(<<SessXDashY, Dash, Prod1>>), {OriginalPng}, YoungTs)
\* a folder of the same session that any listing by name puts before x-1
FolderX0 == Folder(Concat(<<SessX, Dash, <<"0">> >>), {OriginalPng}, YoungTs)
FetchStores == {StoreEmpty, StoreX1, FolderX0, FolderX2, FolderXY1, Merge(StoreX1, FolderX2)}

InitFetch ==
  /\ supabase = TRUE
  /\ cleanupSecret = Null
  /\ fetched = NoFetch
  /\ q = NoQuery
  /\ form = NoForm
  /\ tr = NoTransform
  /\ store \in FetchStores
  /\ orders \in Ledgers
  /\ clock = ClockStart
  /\ faults = 0
  /\ up = [u \in Uploaders |-> NoCall]
  /\ left = [u \in Uploaders |-> IF u = "u1" THEN 1 ELSE 0]
  /\ requests = {SessX}
  /\ written = [k \in {} |-> Null]
  /\ completed = {}
  /\ uploads = {}
  /\ rc = NoReclaim
  /\ store0 = store

NextFetch ==
  \/ NextUpload
  \/ \E u \in Uploaders : FetchOriginal(u)

SpecFetch == InitFetch /\ [][NextFetch]_vars

\* the folder of session x-y and product 1 with a shaped file, a folder with
\* two shaped files of different ages, and one whose file has no timestamp
FolderXY1Shaped ==
  Folder(Concat(<<SessXDashY, Dash, Prod1>>), {OriginalPng, ShapedFileName(Circle, YoungTs)}, YoungTs)
FolderX1Two ==
  Merge(StoreX1, Folder(Concat(<<SessX, Dash, Prod1>>), {ShapedFileName(Rectangle, YoungTs)}, YoungTs))
FolderX2Old ==
  Folder(Concat(<<SessX, Dash, Prod2>>), {<<"c", "i", "r", "c", "l", "e", ".", "p", "n", "g">>}, NoTs)
LookupStores ==
  {StoreEmpty, StoreX1, FolderXY1Shaped, FolderX1Two, Merge(FolderX1Two, FolderX2Old),
   Merge(StoreX1, FolderXY1Shaped)}

\* one upload, one storeSessionFiles per session and one lookup
InitLookup ==
  /\ supabase = TRUE
  /\ cleanupSecret = Null
  /\ fetched = NoFetch
  /\ q = NoQuery
  /\ form = NoForm
  /\ tr = NoTransform
  /\ store \in LookupStores
  /\ orders = LedgerNone
  /\ clock = ClockStart
  /\ faults = 0
  /\ up = [u \in Uploaders |-> NoCall]
  /\ left = [u \in Uploaders |-> IF u = "u1" THEN 1 ELSE 0]
  /\ requests = QuerySessions
  /\ written = [k \in {} |-> Null]
  /\ completed = {}
  /\ uploads = {}
  /\ rc = NoReclaim
  /\ store0 = store

\* the behaviour is followed up to its lookup: what the lookup returns does
\* not depend on what comes after it
NextLookup ==
  \/ q.pc = "idle" /\ \E u \in Uploaders : UploadCall(u)
  \/ q.pc = "idle" /\ UploadSteps
  \/ q.pc = "idle" /\ StoreSessionFiles
  \/ GetLatestShapeBySession
  \/ GetQrPublicUrl
  \/ GetQrFile
  \/ GetShapesBySession
  \/ GetShapeTypesBySession

SpecLookup == InitLookup /\ [][NextLookup]_vars

\* transformImage on its own, over the arguments of Positions and Zooms
InitTransform ==
  /\ supabase = TRUE
  /\ cleanupSecret = Null
  /\ fetched = NoFetch
  /\ q = NoQuery
  /\ form = NoForm
  /\ \E x \in Positions, y \in Positions, zoom \in Zooms :
        tr = [NoTransform EXCEPT !.pc = "input", !.x = x, !.y = y, !.zoom = zoom]
  /\ store = StoreEmpty
  /\ orders = LedgerNone
  /\ clock = ClockStart
  /\ faults = 0
  /\ up = [u \in Uploaders |-> NoCall]
  /\ left = [u \in Uploaders |-> 0]
  /\ requests = {}
  /\ written = [k \in {} |-> Null]
  /\ completed = {}
  /\ uploads = {}
  /\ rc = NoReclaim
  /\ store0 = store

NextTransform == Transform

SpecTransform == InitTransform /\ [][NextTransform]_vars

\* the reclaim operations reached through HTTP, with and without CLEANUP_SECRET
InitHttp ==
  /\ supabase = TRUE
  /\ cleanupSecret \in Secrets
  /\ fetched = NoFetch
  /\ q = NoQuery
  /\ form = NoForm
  /\ tr = NoTransform
  /\ uploads \in UploadRecords
  /\ \E st \in ReclaimStores : store = Merge(st, ProductFiles(uploads))
  /\ orders \in {LedgerNone, LedgerX1}
  /\ clock = ClockStart
  /\ faults = 0
  /\ up = [u \in Uploaders |-> NoCall]
  /\ left = [u \in Uploaders |-> 0]
  /\ requests = {}
  /\ written = [k \in {} |-> Null]
  /\ completed = {}
  /\ rc = NoReclaim
  /\ store0 = store

SpecHttp == InitHttp /\ [][NextHttp]_vars

(***************************************************************************)
(* The service as a whole: one upload and one reclaim pass, in any order   *)
(* and interleaved, with the store client built or not.                    *)
(***************************************************************************)
Init ==
  /\ supabase \in BOOLEAN
  /\ cleanupSecret = Null
  /\ fetched = NoFetch
  /\ q = NoQuery
  /\ form = NoForm
  /\ tr = NoTransform
  /\ uploads = {[code |-> Code1, session_id |-> SessX]}
  /\ store = Merge(Merge(StoreX1, StrayFile), ProductFiles(uploads))
  /\ orders \in {LedgerNone, LedgerX1}
  /\ clock = ClockStart
  /\ faults = 0
  /\ up = [u \in Uploaders |-> NoCall]
  /\ left = [u \in Uploaders |-> IF u = "u1" THEN 1 ELSE 0]
  /\ requests = {SessX, <<>>}
  /\ written = [k \in {} |-> Null]
  /\ completed = {}
  /\ rc = NoReclaim
  /\ store0 = store

Next ==
  \/ NextUpload
  \/ NextReclaim

Spec == Init /\ [][Next]_vars

(***************************************************************************)
(* Claims about uploadSessionImage and generateUniqueSessionId.            *)
(***************************************************************************)
Resolved(c) == c.pc \in {"listExisting", "listFinal", "remove", "putOriginal", "putShaped", "done"}
Holds(path, bytes) == path \in DOMAIN store /\ store[path].bytes = bytes
FileNames(folderPath) == {f.name : f \in List(store, folderPath)}

\* C1: when the orders the resolver fetched hold an order with session_id =
\* baseSessionId and product_id = productId, the id generateUniqueSessionId
\* returns, and the sessionIdUsed the upload reports, differs from baseSessionId,
\* also when every attempt of the candidate loop conflicted.
C1_ConflictNeverKeepsId ==
  /\ \A u \in Uploaders :
       (Resolved(up[u]) /\ ~up[u].ledgerFailed
          /\ ConflictExists(orders, up[u].sessionId, up[u].productId))
         => up[u].finalSessionId # up[u].sessionId
  /\ \A r \in completed :
       (~r.ledgerFailed /\ ConflictExists(orders, r.sessionId, r.productIdUsed))
         => r.sessionIdUsed # r.sessionId

\* an upload that returned after all maxAttempts - 1 candidates conflicted
C1_Witness ==
  \E u \in Uploaders :
    /\ up[u].pc = "done"
    /\ up[u].conflict
    /\ up[u].attempts = maxAttempts - 1
    /\ ConflictExists(orders, up[u].finalSessionId, up[u].productId)

\* C2: a failed ledger query does not fail the upload: the call goes on with
\* finalSessionId = the requested id and sessionIdChanged = FALSE, and a call
\* that returns has stored its files under customizer/<sessionId>-<productId>.
C2_LedgerFailureFallsBack ==
  \A u \in Uploaders :
    LET c == up[u] IN
    c.ledgerFailed =>
      /\ c.pc = "failed" => c.failedAt # "getOrders"
      /\ c.finalSessionId = c.sessionId
      /\ ~c.sessionIdChanged
      /\ c.pc = "done" =>
           /\ FinalFolderPath(c) = SessionFolder(c.sessionId, c.productId)
           /\ Holds(Join(SessionFolder(c.sessionId, c.productId), OriginalPng), c.buffer)
           /\ Holds(Join(SessionFolder(c.sessionId, c.productId), c.shapedFileName),
                    Shaped(c.buffer, c.shape))

C2_Witness == \E u \in Uploaders : up[u].pc = "done" /\ up[u].ledgerFailed

\* C3: when the ledger query failed, the sessionIdChangeReason of the upload's
\* result is the reason that explains the fallback.
C3_FallbackReasonDelivered ==
  \A r \in completed : r.ledgerFailed => r.sessionIdChangeReason = ReasonFallback

BothDone ==
  /\ \A u \in Uploaders : up[u].pc = "done"
  /\ \A u, v \in Uploaders : FinalFolderPath(up[u]) = FinalFolderPath(up[v])

ListedPaths == {FolderPath(f) : f \in rc.listed}

\* every object the folder held at the start is still there, unchanged
Kept(folderPath) ==
  \A k \in Below(store0, folderPath) : k \in DOMAIN store /\ store[k] = store0[k]

\* some file of the folder is less than graceDays old when the pass reads the clock
HasYoungFile(folderPath) ==
  \E k \in Below(store0, folderPath) :
     /\ store0[k].updated_at # NoTs
     /\ rc.now - store0[k].updated_at < rc.graceDays * DayMs

\* no file of the folder carries a timestamp
NoTimestamp(folderPath) ==
  \A k \in Below(store0, folderPath) : store0[k].updated_at = NoTs

\* the text before the first '-' occurs in some serialized order
Referenced(folderName) ==
  \E i \in DOMAIN orders : Includes(Stringify(orders[i]), SplitFirst(folderName, "-"))

\* C6: a pass of cleanupOrphanedSessions without force never removes a file
\* of a non-empty folder whose newest file is less than graceDays old when
\* the pass reads the clock, nor of one whose files carry no timestamp; when
\* the pass returns, each such folder it could list is in skippedFolders.
C6_GraceProtectsYoungFolders ==
  (rc.op = "cleanup" /\ ~rc.force /\ rc.now > 0) =>
    \A f \in rc.listed :
       LET folderPath == FolderPath(f)
       IN (Below(store0, folderPath) # {}
             /\ (HasYoungFile(folderPath) \/ NoTimestamp(folderPath))) =>
            /\ Kept(folderPath)
            /\ folderPath \notin rc.deletedFolders
            /\ (rc.pc = "done" /\ folderPath \notin rc.faulted) =>
                 folderPath \in rc.skippedFolders

\* a pass with the default grace period returned: it skipped a folder with a
\* young file and one without timestamps, or skipped one and deleted another
C6_Witness ==
  /\ rc.op = "cleanup" /\ ~rc.force /\ rc.pc = "done"
  /\ rc.graceDays = DefaultGraceDays
  /\ \E f \in rc.listed :
       /\ Below(store0, FolderPath(f)) # {}
       /\ HasYoungFile(FolderPath(f))
       /\ FolderPath(f) \in rc.skippedFolders
  /\ rc.deletedFolders # {}

\* C7: with force and no store error both operations delete every listed
\* folder and skip none.
C7_ForceDeletesEveryFolder ==
  (rc.pc = "done" /\ rc.force /\ faults = 0) =>
    /\ rc.deletedFolders = ListedPaths
    /\ rc.skippedFolders = {}
    /\ \A folderPath \in ListedPaths : Below(store, folderPath) = {}

C9_FolderFailureIsCollected ==
  /\ rc.faulted \subseteq rc.errors
  /\ rc.faulted # {} => rc.pc # "failed"
  /\ (rc.pc = "done" /\ rc.listed # {}) =>
       /\ rc.todo = {}
       /\ ListedPaths = rc.deletedFolders \cup rc.skippedFolders
                          \cup (rc.errors \cap ListedPaths)

\* a pass over two folders returned after the store failed on one of them
\* and the other was deleted
C9_Witness ==
  /\ rc.pc = "done"
  /\ Cardinality(rc.listed) = 2
  /\ rc.faulted # {}
  /\ rc.deletedFolders # {}
  /\ rc.deletedFolders \cap rc.faulted = {}

(***************************************************************************)
(* Claims about the service without a store client.                        *)
(***************************************************************************)
NotConfigured == "Supabase service is not configured"

\* without a client nothing reaches the store or the ledger
NothingTouched ==
  /\ store = store0
  /\ rc.calls = 0 /\ rc.listed = {} /\ rc.pc \in {"idle", "failed"}
  /\ \A u \in Uploaders : up[u].calls = 0 /\ up[u].pc \in {"idle", "failed"}

\* C10 as stated: without a store client every call of the three operations
\* fails with the configuration error before any store or ledger call.
C10_EveryCallFailsUnconfigured ==
  ~supabase =>
    /\ NothingTouched
    /\ rc.pc = "failed" => rc.error = NotConfigured
    /\ \A u \in Uploaders : up[u].pc = "failed" => up[u].error = NotConfigured

\* C10: without a store client every call of the three operations fails
\* before any store or ledger call and the store stays as it was; the failure
\* is the configuration error, except for an upload without file, session id
\* or product id, which fails on that argument first.
C10_FailsBeforeAnyCall ==
  ~supabase =>
    /\ NothingTouched
    /\ rc.pc = "failed" => rc.error = NotConfigured
    /\ \A u \in Uploaders :
         up[u].pc = "failed" =>
           IF up[u].file = Null THEN up[u].error = "No file provided"
           ELSE IF up[u].sessionId = <<>> THEN up[u].error = "Session ID is required"
           ELSE IF up[u].productId = <<>> THEN up[u].error = "Product ID is required"
           ELSE up[u].error = NotConfigured

\* without a client an upload with all its arguments and a reclaim call have
\* both failed
C10_Witness ==
  /\ ~supabase
  /\ rc.pc = "failed" /\ rc.error = NotConfigured
  /\ \E u \in Uploaders :
       /\ up[u].pc = "failed" /\ up[u].error = NotConfigured
       /\ up[u].file # Null /\ up[u].sessionId # <<>> /\ up[u].productId # <<>>


(***************************************************************************)
(* Claims about the HTTP entrypoints of the reclaim operations.            *)
(***************************************************************************)
\* C11: a reclaim call with force, whichever route it came by, was let
\* through by a check of the request's secret.
C11_ForceNeedsAuthorization ==
  (rc.force /\ rc.pc # "idle" /\ rc.via # "") => rc.authorized


(***************************************************************************)
(* Claims about fetching what an upload stored.                            *)
(***************************************************************************)
\* C12: after a successful upload, getOriginalFile with the session id the
\* upload returned yields the uploaded bytes, whatever else the store holds
\* (no store failure during the fetch).
C12_FetchReturnsUploadedBytes ==
  (fetched.pc = "done" /\ faults = 0) =>
    (fetched.outcome = "ok" /\ fetched.buffer = fetched.expected)


(***************************************************************************)
(* Claims about successive uploads and the identity an upload reports.     *)
(***************************************************************************)
\* a was the call just before b of the same client, for the same session and product
Successive(a, b) ==
  /\ a.by = b.by
  /\ a.buffer[2] = b.buffer[2] + 1
  /\ a.sessionId = b.sessionId
  /\ a.productIdUsed = b.productIdUsed

\* no order carries the pair (session_id, product_id)
NoOrderFor(sid, pid) ==
  \A i \in DOMAIN orders :
    ~(/\ \E j \in DOMAIN orders[i].properties :
            orders[i].properties[j] = Prop(SessionIdKey, sid)
      /\ \E k \in DOMAIN orders[i].properties :
            orders[i].properties[k] = Prop(ProductIdKey, pid))

\* C13: two successive uploads with the same session id and product id, the
\* pair being in no order, both store under customizer/<sessionId>-<productId>,
\* and after the second one original.png there holds the second upload's bytes.
C13_SameFolderReused ==
  \A a \in completed : \A b \in completed :
    (Successive(a, b) /\ NoOrderFor(a.sessionId, a.productIdUsed)) =>
      LET original == Join(SessionFolder(a.sessionId, a.productIdUsed), OriginalPng)
      IN /\ a.sessionIdUsed = a.sessionId /\ b.sessionIdUsed = b.sessionId
         /\ a.originalFileId = original /\ b.originalFileId = original
         /\ (up[b.by].pc = "done" /\ up[b.by].buffer = b.buffer) =>
              Holds(original, b.buffer)

\* two such uploads returned, the ledger having answered both times
C13_Witness ==
  \E a \in completed : \E b \in completed :
    /\ Successive(a, b) /\ NoOrderFor(a.sessionId, a.productIdUsed)
    /\ ~a.ledgerFailed /\ ~b.ledgerFailed
    /\ Holds(b.originalFileId, b.buffer) /\ a.buffer # b.buffer


\* C14: the session id an upload uses differs from the requested one only if
\* the ledger answered and holds an order with the requested pair, and
\* sessionIdChanged is TRUE exactly when the two ids differ; this holds for a
\* running call once the id is resolved and for every result returned.
C14_IdChangesOnlyOnConflict ==
  /\ \A u \in Uploaders :
       Resolved(up[u]) =>
         /\ up[u].finalSessionId # up[u].sessionId =>
              (~up[u].ledgerFailed /\ ~NoOrderFor(up[u].sessionId, up[u].productId))
         /\ up[u].sessionIdChanged <=> up[u].finalSessionId # up[u].sessionId
  /\ \A r \in completed :
       /\ r.sessionIdUsed # r.sessionId =>
            (~r.ledgerFailed /\ ~NoOrderFor(r.sessionId, r.productIdUsed))
       /\ r.sessionIdChanged <=> r.sessionIdUsed # r.sessionId

\* results of all three kinds were returned: id changed on a conflict, id kept
\* with the ledger answering, id kept with the ledger failing
C14_Witness ==
  /\ \E r \in completed : r.sessionIdChanged /\ r.sessionIdUsed # r.sessionId
  /\ \E r \in completed : ~r.sessionIdChanged /\ (r.ledgerFailed \/ NoOrderFor(r.sessionId, r.productIdUsed))


(***************************************************************************)
(* Claims about the geometry transformImage computes.                      *)
(***************************************************************************)
Done(x, y, zoom) == tr.pc = "done" /\ tr.x = x /\ tr.y = y /\ tr.zoom = zoom

\* C17: for zoom = 1, x = 50, y = 50 on the 500x500 canvas the image's
\* top-left is (0,0), the extract region starts at (0,0) and is 500x500, and
\* it is composited at (0,0).
C17_CenteredAtZoomOne ==
  Done(50 * Scale, 50 * Scale, Scale) =>
    /\ tr.out.ok
    /\ tr.out.imageLeft = 0 /\ tr.out.imageTop = 0
    /\ tr.out.extractLeft = 0 /\ tr.out.extractTop = 0
    /\ tr.out.extractWidth = outputWidth /\ tr.out.extractHeight = outputHeight
    /\ tr.out.compositeLeft = 0 /\ tr.out.compositeTop = 0

C17_Witness == Done(50 * Scale, 50 * Scale, Scale) /\ tr.out.ok /\ tr.out.scaledWidth = outputWidth

\* C18 as stated: for zoom = 2, x = 0, y = 0 the extract offsets are half of
\* scaledDim - canvasDim.
C18_OffsetsHalfOverflow ==
  Done(0, 0, 2 * Scale) =>
    /\ 2 * tr.out.extractLeft = tr.out.scaledWidth - outputWidth
    /\ 2 * tr.out.extractTop = tr.out.scaledHeight - outputHeight

\* C18: for zoom = 2, x = 0, y = 0 the image is centred on the canvas corner,
\* so the extract offsets are half of the scaled size, 500, which here is the
\* whole of scaledDim - canvasDim; the region is 500x500 and is composited
\* at (0,0).
C18_OffsetsHalfScaledSize ==
  Done(0, 0, 2 * Scale) =>
    /\ tr.out.scaledWidth = 2 * outputWidth /\ tr.out.scaledHeight = 2 * outputHeight
    /\ 2 * tr.out.extractLeft = tr.out.scaledWidth
    /\ 2 * tr.out.extractTop = tr.out.scaledHeight
    /\ tr.out.extractLeft = tr.out.scaledWidth - outputWidth
    /\ tr.out.extractTop = tr.out.scaledHeight - outputHeight
    /\ tr.out.extractWidth = outputWidth /\ tr.out.extractHeight = outputHeight
    /\ tr.out.compositeLeft = 0 /\ tr.out.compositeTop = 0

C18_Witness == Done(0, 0, 2 * Scale) /\ tr.out.ok /\ tr.out.imageLeft < 0

\* C19: for every x, y, zoom the extract offsets are (max(0,-left),
\* max(0,-top)), the region lies inside the scaled image, and the region
\* placed at the composite offset ends inside the canvas.
C19_RegionIsVisiblePart ==
  (tr.pc = "done" /\ tr.out.ok) =>
    LET o == tr.out IN
    /\ o.extractLeft = (IF 0 - o.imageLeft > 0 THEN 0 - o.imageLeft ELSE 0)
    /\ o.extractTop = (IF 0 - o.imageTop > 0 THEN 0 - o.imageTop ELSE 0)
    /\ o.extractLeft >= 0 /\ o.extractLeft + o.extractWidth <= o.scaledWidth
    /\ o.extractTop >= 0 /\ o.extractTop + o.extractHeight <= o.scaledHeight
    /\ o.compositeLeft + o.extractWidth <= outputWidth
    /\ o.compositeTop + o.extractHeight <= outputHeight

\* the x, y or zoom of the request body of c is missing or is not a number
Unparsable(c) ==
  \E field \in {c.body.x, c.body.y, c.body.zoom} :
    field = <<>> \/ ParseFloat(field).nan

\* C15: an upload request whose x, y or zoom is missing or does not parse as
\* a number is rejected before the ledger is queried and before the store is
\* changed: it has failed in the controller or in the checks at the entry of
\* the service, it has made no store call and the store holds what it held.
C15_UnparsableFailsFast ==
  \A u \in Uploaders :
    (up[u].via = "http" /\ Unparsable(up[u])) =>
      /\ up[u].pc = "failed"
      /\ up[u].failedAt \in {"http", "call"}
      /\ up[u].calls = 0
      /\ DOMAIN written = {}

\* the shape an upload asks for
RequestedShape(c) ==
  IF c.via = "http" THEN ToLowerCase(c.body.shape) ELSE c.shape

\* C20: an upload whose shape is outside {circle, heart, rectangle} never
\* gets to store a shaped file, and when nothing else is wrong with it (no
\* failing call, x, y and zoom are numbers) and it fails at the mask, after
\* the checks of the controller and of the entry of the service, it fails
\* with the invalid-shape error, not with the error of a failed mask.
C20_InvalidShapeRejected ==
  \A u \in Uploaders :
    (up[u].via # "" /\ RequestedShape(up[u]) \notin ValidShapes) =>
      /\ up[u].pc \notin {"putShaped", "done"}
      /\ (up[u].pc = "failed" /\ up[u].failedAt \notin {"http", "call"} /\ faults = 0
            /\ TransformImage(up[u].custom, outputWidth, outputHeight).ok)
           => up[u].error = InvalidShape

\* newSessionId is `${baseSessionId}_${4 digits}_${randomSuffix}`
CandidateForm(newSessionId, baseSessionId) ==
  LET n == Len(baseSessionId) IN
  /\ Len(newSessionId) > n + 6
  /\ SubSeq(newSessionId, 1, n) = baseSessionId
  /\ newSessionId[n + 1] = "_" /\ newSessionId[n + 6] = "_"
  /\ \A i \in (n + 2)..(n + 5) : IsDigit(newSessionId[i])
  /\ SubSeq(newSessionId, n + 7, Len(newSessionId)) \in RandomSuffixes

\* C16: on conflict the id the resolver returns is a candidate of the form
\* <base>_<4 digits>_<random>, found in at least one and at most maxAttempts
\* attempts; it conflicts with the ledger only when every attempt conflicted
\* (the loop stops at the first candidate that is free); and the loop run pass
\* by pass from counter = 1 ends, with the outcomes the resolver uses.
C16_BoundedRetry ==
  \A u \in Uploaders :
    LET c == up[u] IN
    /\ (Resolved(c) /\ c.conflict) =>
         /\ CandidateForm(c.finalSessionId, c.sessionId)
         /\ c.attempts >= 1 /\ c.attempts <= maxAttempts
         /\ ConflictExists(orders, c.finalSessionId, c.productId)
              => c.attempts = maxAttempts - 1
    /\ (c.pc = "getOrders" /\ ConflictExists(orders, c.sessionId, c.productId)) =>
         /\ WhileLoop(c.sessionId, c.productId, orders, clock, 1) # {}
         /\ WhileLoop(c.sessionId, c.productId, orders, clock, 1)
              = CandidateLoop(c.sessionId, c.productId, orders, clock)

\* an upload that returned with a free candidate found after passes that drew
\* a taken one
C16_Witness ==
  \E u \in Uploaders :
    /\ up[u].pc = "done" /\ up[u].conflict
    /\ up[u].attempts > 1 /\ up[u].attempts < maxAttempts - 1
    /\ ~ConflictExists(orders, up[u].finalSessionId, up[u].productId)

\* C21: the reason a successful upload returns names the case that occurred:
\* the conflict reason when the id was changed, and, when the ledger holds
\* no order for the requested session and product, the reuse reason when the
\* target folder held files at the time it was listed and the fresh reason
\* when it held none; the three reasons differ from one another.
C21_ReasonNamesTheCase ==
  /\ ReasonConflict # ReasonReuse /\ ReasonConflict # ReasonFresh /\ ReasonReuse # ReasonFresh
  /\ \A r \in completed :
       /\ r.sessionIdChanged => r.sessionIdChangeReason = ReasonConflict
       /\ (~r.sessionIdChanged /\ NoOrderFor(r.sessionId, r.productIdUsed)) =>
            r.sessionIdChangeReason = (IF r.existed THEN ReasonReuse ELSE ReasonFresh)

\* C22: when a pass of deleteSessionsNotInOrders has returned, for every
\* folder it deleted by removing its files, a record whose session_id is the
\* session of the folder is either gone or named in errors, and the stored
\* assets of a record the pass deleted are gone or the record is named in
\* errors; the pass has gone through all the folders it listed.
C22_CascadeDeletesRecords ==
  (rc.op = "deleteMissing" /\ rc.pc = "done") =>
    /\ \A f \in rc.listed :
         (FolderPath(f) \in rc.deletedFolders /\ Below(store0, FolderPath(f)) # {}) =>
           \A u \in uploads :
             u.session_id = SessionOfFolder(f) => ProductError(u.code) \in rc.errors
    /\ \A code \in rc.deletedUploads :
         \/ ProductPaths(code) \cap DOMAIN store = {}
         \/ ProductError(code) \in rc.errors
    /\ \A f \in rc.listed :
         FolderPath(f) \in rc.deletedFolders \cup rc.skippedFolders \cup rc.errors

\* the shaped PNGs of a store a query for (sessionId, productId, shape) is
\* about, as <<folder name, file name>>: the files named <shape>.png or
\* <shape>_<anything>.png for a known shape (the asked one when one is asked),
\* in the folders <sessionId> or <sessionId>-<anything> (<sessionId>-<productId>
\* or <sessionId> when a product is asked), the folders in skip left out
ShapedPngs(st, sessionId, productId, shape, skip) ==
  {x \in UNION {{<<e.name, f.name>> : f \in List(st, FolderPath(e.name))} :
                  e \in List(st, CustomizerRoot)} :
     /\ x[1] \notin skip
     /\ \/ x[1] = sessionId
        \/ productId = <<>> /\ StartsWith(x[1], sessionId \o Dash)
        \/ productId # <<>> /\ x[1] = Concat(<<sessionId, Dash, productId>>)
     /\ x[2] # OriginalPng
     /\ EndsWith(x[2], DotPng)
     /\ \E sh \in (IF shape = <<>> THEN ValidShapes ELSE {shape}) :
          x[2] = sh \o DotPng \/ StartsWith(x[2], sh \o Underscore)}

StoredTs(st, x) == st[Join(FolderPath(x[1]), x[2])].updated_at

\* C23: getLatestShapeBySession returns one of the shaped PNGs of the folders
\* matching the session and the filters, never original.png, with a
\* timestamp no other of them exceeds, and NotFound exactly when there is
\* none; and when an upload has returned and its shaped file is in the store,
\* the query with the session id and product id the upload used returns that
\* file.
C23_LatestShapeIsLatest ==
  (q.op = "getLatestShapeBySession" /\ q.pc = "done"
     /\ q.outcome \in {"ok", "No shaped image found for this session"}) =>
    LET all == ShapedPngs(q.at, q.sessionId, q.productId, q.shape, q.skipped)
        got == <<SubSeq(q.folder, Len(CustomizerRoot) + 2, Len(q.folder)), q.name>>
    IN /\ q.outcome = "ok" <=> all # {}
       /\ q.outcome = "ok" =>
            /\ got \in all
            /\ q.name # OriginalPng
            /\ \A x \in all :
                 StoredTs(q.at, x) # NoTs => StoredTs(q.at, x) <= q.timestamp
       /\ \A r \in completed :
            (/\ q.sessionId = r.sessionIdUsed /\ q.productId = r.productIdUsed
             /\ q.shape \in {<<>>, r.shape}
             /\ q.skipped = {}
             /\ r.shapedFileId \in DOMAIN q.at
             /\ q.at[r.shapedFileId].bytes = Shaped(r.buffer, r.shape))
            => /\ q.outcome = "ok"
               /\ Join(q.folder, q.name) = r.shapedFileId
               /\ q.buffer = Shaped(r.buffer, r.shape)

\* the query returned a file that is not the first shaped PNG of the loops:
\* an older one comes before it
C23_Witness ==
  /\ q.op = "getLatestShapeBySession" /\ q.pc = "done" /\ q.outcome = "ok"
  /\ \E x \in ShapedPngs(q.at, q.sessionId, q.productId, q.shape, q.skipped) :
       /\ StoredTs(q.at, x) < q.timestamp
       /\ Less(x[1], SubSeq(q.folder, Len(CustomizerRoot) + 2, Len(q.folder)))
            \/ (FolderPath(x[1]) = q.folder /\ Less(x[2], q.name))

\* C24: the file getQrFile returns is a stored object whose name starts with
\* 'qr', with the bytes stored under it, and when no call of the lookup failed
\* it is the object getQrPublicUrl points to in the same store; getQrFile
\* finds no QR exactly when getQrPublicUrl finds none.
C24_QrFileIsTheQrOfTheUrl ==
  (q.op = "getQrFile" /\ q.pc = "done" /\ q.outcome \in {"ok", QrNotFound}) =>
    LET url == QrUrlSelected(q.at, q.sessionId, {})
    IN /\ q.outcome = "ok" =>
            /\ StartsWith(ToLowerCase(q.name), Qr)
            /\ Join(q.folder, q.name) \in DOMAIN q.at
            /\ q.buffer = q.at[Join(q.folder, q.name)].bytes
       /\ q.skipped = {} =>
            /\ q.outcome = "ok" <=> url # {}
            /\ q.outcome = "ok" =>
                 LET x == FirstOf(url)
                 IN q.folder = FolderPath(x[1].name) /\ q.name = x[2].name

\* C25: the remove of a cleanupOrphanedSessions pass without force that
\* deletes a folder removes from the store exactly the paths the pass listed
\* before, as the store holds them at that moment, whatever an upload has
\* written under them since the listing.
C25_RemovesThePathsListed ==
  [][(/\ rc.op = "cleanup" /\ ~rc.force
      /\ rc.pc = "removeFiles"
      /\ FolderPath(rc.folderName) \in rc'.deletedFolders \ rc.deletedFolders)
     => /\ DOMAIN store' = DOMAIN store \ rc.filePaths
        /\ \A path \in DOMAIN store' : store'[path] = store[path]]_vars

\* the race: a pass without force has deleted the folder of an upload whose
\* original.png, put during the pass at an instant within the grace period
\* of the pass, is no longer in the store
C25_Witness ==
  /\ rc.op = "cleanup" /\ ~rc.force /\ rc.graceDays > 0
  /\ \E u \in Uploaders :
       /\ up[u].pc \in {"putShaped", "done"}
       /\ \A v \in Uploaders \ {u} : up[v].pc = "idle"
       /\ OriginalFilePath(up[u]) \in DOMAIN written
       /\ OriginalFilePath(up[u]) \notin DOMAIN store
       /\ OriginalFilePath(up[u]) \in DOMAIN store0
       /\ FinalFolderPath(up[u]) \in rc.deletedFolders
       /\ rc.now - clock <= rc.graceDays * DayMs

\* the call ended at the render (transform or mask) or at the put of the
\* shaped file, its original.png stored before
RenderOrShapedPutFailed(c) ==
  /\ c.pc = "failed"
  /\ \/ c.failedAt = "putShaped"
     \/ c.failedAt = "putOriginal" /\ OriginalFilePath(c) \in DOMAIN written

\* C26: when the render or the put of the shaped file fails, the files the
\* target folder held before have been removed and the new original.png has
\* been stored: the folder is left with this upload's original and nothing
\* else, no shaped file.
C26_FailureLeavesOnlyTheOriginal ==
  \A u \in Uploaders :
    RenderOrShapedPutFailed(up[u]) =>
      /\ Below(store, FinalFolderPath(up[u])) = {OriginalFilePath(up[u])}
      /\ store[OriginalFilePath(up[u])].bytes = up[u].buffer

\* the part that does hold: the failure is returned with the new original.png
\* stored and no shaped file of this upload
C26_OriginalStoredNoRollback ==
  \A u \in Uploaders :
    RenderOrShapedPutFailed(up[u]) =>
      /\ OriginalFilePath(up[u]) \in DOMAIN store
      /\ store[OriginalFilePath(up[u])].bytes = up[u].buffer
      /\ ShapedFilePath(up[u]) \notin DOMAIN written

\* the folders the pass listed at its start, as paths
ListedFolders(c) == {FolderPath(folderName) : folderName \in c.listed}

\* the entries of errors that name a folder (the others name a product)
FolderErrors(c) == c.errors \cap ListedFolders(c)

\* C27: deletedFolders, skippedFolders and the folder entries of errors are
\* pairwise disjoint all along a reclaim pass, a folder is in deletedFolders
\* only if no store call on it reported an error, and when the pass returns
\* the three together are exactly the folders listed at its start.
C27_EveryFolderInExactlyOne ==
  /\ rc.deletedFolders \cap rc.skippedFolders = {}
  /\ rc.deletedFolders \cap FolderErrors(rc) = {}
  /\ rc.skippedFolders \cap FolderErrors(rc) = {}
  /\ rc.deletedFolders \cap rc.faulted = {}
  /\ rc.pc = "done" =>
       rc.deletedFolders \cup rc.skippedFolders \cup FolderErrors(rc) = ListedFolders(rc)

\* a pass over two folders that returned with one of them deleted and the
\* other, whose store call reported an error, in errors
C27_Witness ==
  /\ rc.pc = "done"
  /\ Cardinality(ListedFolders(rc)) = 2
  /\ rc.deletedFolders # {}
  /\ FolderErrors(rc) # {}
  /\ FolderErrors(rc) = rc.faulted

\* C28: when the order-ledger query of a reclaim pass fails, the pass fails
\* as a whole with its job error, no file has been removed from the store
\* and no folder or upload record has been deleted, with force as without.
C28_LedgerFailureRemovesNothing ==
  rc.failedAt = "getOrders" =>
    /\ rc.pc = "failed"
    /\ rc.error = JobFailed(rc.op)
    /\ store = store0
    /\ rc.deletedFolders = {} /\ rc.deletedUploads = {}

\* a pass with force whose ledger query failed after it listed folders with files
C28_Witness ==
  /\ rc.failedAt = "getOrders"
  /\ rc.force
  /\ rc.listed # {}
  /\ \E folderName \in rc.listed : Below(store, FolderPath(folderName)) # {}

\* the lookups by session id alone
SessionLookups ==
  {"getShapesBySession", "getShapeTypesBySession", "getLatestShapeBySession"}

\* the folders a finished lookup returned an asset from
ReturnedFolders(c) ==
  IF c.outcome # "ok" THEN {}
  ELSE IF c.op = "getLatestShapeBySession" THEN {c.folder}
  ELSE {x[1] : x \in c.found}

\* C29: a lookup by session id alone returns no asset from a folder that an
\* upload made with another session id, also when that other id is the
\* looked-up id followed by '-' and more.
C29_LookupReturnsOwnSession ==
  (q.pc = "done" /\ q.op \in SessionLookups /\ q.productId = <<>>) =>
    \A r \in completed :
      r.sessionIdUsed # q.sessionId =>
        SessionFolder(r.sessionIdUsed, r.productIdUsed) \notin ReturnedFolders(q)

\* the contact form page on its own
InitForm ==
  /\ form \in {NoForm, [NoForm EXCEPT !.key = FALSE]}
  /\ supabase = TRUE
  /\ cleanupSecret = Null
  /\ fetched = NoFetch
  /\ q = NoQuery
  /\ tr = NoTransform
  /\ store = StoreEmpty
  /\ orders = LedgerNone
  /\ clock = ClockStart
  /\ faults = 0
  /\ up = [u \in Uploaders |-> NoCall]
  /\ left = [u \in Uploaders |-> 0]
  /\ requests = {}
  /\ written = [k \in {} |-> Null]
  /\ completed = {}
  /\ uploads = {}
  /\ rc = NoReclaim
  /\ store0 = store

NextForm ==
  \/ FormPickFile
  \/ FormUploadSettled
  \/ FormRemove
  \/ FormSubmit
  \/ FormEmailSettled

SpecForm == InitForm /\ [][NextForm]_vars

\* C30: in the contact form, activeUploads is the number of uploads in flight
\* and is never negative, the submit button is disabled whenever an upload is
\* in flight, and the email request is never sent while an attachment has
\* status 'uploading'.
C30_SubmitBlockedWhileUploading ==
  /\ form.activeUploads = Cardinality(form.inFlight)
  /\ form.activeUploads >= 0
  /\ form.inFlight # {} => form.submitDisabled
  /\ ~form.sentWhileUploading

\* the parts that hold: the counter, and no email sent during an upload
C30_CounterAndSendGuard ==
  /\ form.activeUploads = Cardinality(form.inFlight)
  /\ form.activeUploads >= 0
  /\ ~form.sentWhileUploading
  /\ \A i \in DOMAIN form.uploads :
       form.uploads[i].status = "uploading" => form.uploads[i].id \in form.inFlight

====
